---- MODULE Spec2Model ----
(***************************************************************************)
(* Model of the ECW broker scrapers (BizQuest, BusinessBroker, Crexi,      *)
(* IBBA) and of their shared record / export module.                       *)
(*                                                                         *)
(* Strings are sequences of one-character strings, so that lower(),        *)
(* strip(), the substring test and the regular expressions of the source   *)
(* are computed character by character.                                    *)
(***************************************************************************)
EXTENDS Integers, Sequences, FiniteSets, TLC

VARIABLES
    contacts,   \* all_contacts: the BrokerContact list, in profile-visit order
    df,         \* the rows of contacts_to_dataframe(all_contacts)
    df_clean,   \* the rows of clean_contacts_dataframe(df)
    pc,         \* position of the save step of a site script
    body,       \* the text the keyword matcher is given (page body / bio block)
    kwSite,     \* the site script whose matcher has run ("none" before)
    kwRead,     \* whether reading the page text succeeded (no exception)
    kwResult,   \* the tuple the matcher returned
    locBody,    \* the body text of the profile page the location is read from
    locParsed,  \* the text the returned location was parsed from
    locSite,    \* the site script whose location extractor has run
    locResult,  \* the location the extractor returned
    page_num,   \* BizQuest crawl: the listing page the loop is at
    all_urls,   \* BizQuest crawl: the profile URLs collected
    fetched,    \* BizQuest crawl: one record per listing page fetched
    found_urls, \* BizQuest crawl: the profile links seen on the fetched pages
    crawl_pc,   \* BizQuest crawl: "idle", "crawling" or "returned"
    start_page, \* Crexi crawl: the first page to collect from
    end_page,   \* Crexi crawl: the last page to collect from
    cx_page_num,            \* Crexi crawl: page_num of _collect_all_profile_urls
    consecutive_failures,   \* Crexi crawl: the failure counter of the loop
    cx_all_urls,            \* Crexi crawl: all_urls, the list collected
    fail_streak,    \* Crexi crawl: failed attempts to advance in a row (history)
    cx_pc,          \* Crexi crawl: "idle", "crawling" or "returned"
    cx_collected_at,    \* Crexi crawl: the values of page_num at which URLs were added (history)
    cx_last,        \* Crexi crawl: what the last iteration did (history)
    run_site,       \* run: the site script that is run ("none": no run)
    regions_given,  \* run: whether a region flag restricts the run
    sheet_cfg,      \* run: "off" (no SHEET_ID), "on" or "misconfigured"
    run_pc,         \* run: position of the top-level function
    run_error,      \* run: what ended the process with an error ("none")
    region_idx,     \* run: index of the region (directory) being scraped
    profile_list,   \* run: the profile URLs of the region still to visit
    region_contacts,\* run: contacts, the list local to the region function
    all_contacts,   \* run: all_contacts of the top-level function
    seen_urls,      \* run: the profile URLs already visited
    csv_file,       \* run: the content of the site's CSV file
    worksheet,      \* run: the data rows (row 2 and below) of the worksheet
    collected,      \* run: every record appended so far (history)
    last_visit,     \* run: what the last profile visit did (history)
    interrupted,    \* run: whether the operator has interrupted the run
    args,           \* run: the region flags given on the command line
    run_urls,       \* run: the regions the top-level function loops over
    scraped,        \* run: the regions whose region function was called (history)
    sheet_log,      \* run: whether a worksheet call was made, and failed (history)
    visited_urls,   \* run: the profile URLs visited, in order (history)
    ib_n,           \* IBBA state scrape: the number of "more details" links counted
    ib_card,        \* IBBA state scrape: index of the next card of the loop
    ib_shows,       \* IBBA state scrape: the page the browser shows
    ib_contacts,    \* IBBA state scrape: the number of contacts appended
    ib_last,        \* IBBA state scrape: what the last iteration did (history)
    ib_pc,          \* IBBA state scrape: "idle", "loop" or "returned"
    tel_links,      \* IBBA phone: the tel: links of the profile page
    phone_result,   \* IBBA phone: what _extract_phone_from_profile returned
    ph_pc           \* IBBA phone: "idle", "ready" or "done"

exportVars == <<contacts, df, df_clean, pc>>

kwVars == <<body, kwSite, kwRead, kwResult>>

locVars == <<locBody, locParsed, locSite, locResult>>

crawlVars == <<page_num, all_urls, fetched, found_urls, crawl_pc>>

\* the variables of the parts added after the three above
cxVars == <<start_page, end_page, cx_page_num, consecutive_failures,
            cx_all_urls, fail_streak, cx_pc, cx_collected_at, cx_last>>

runVars == <<run_site, regions_given, sheet_cfg, run_pc, run_error, region_idx,
             profile_list, region_contacts, all_contacts, seen_urls, csv_file,
             worksheet, collected, last_visit, interrupted, args, run_urls, scraped,
             sheet_log, visited_urls>>

ibbaVars == <<ib_n, ib_card, ib_shows, ib_contacts, ib_last, ib_pc,
              tel_links, phone_result, ph_pc>>

otherVars == <<crawlVars, cxVars, runVars, ibbaVars>>

vars == <<contacts, df, df_clean, pc, body, kwSite, kwRead, kwResult,
          locBody, locParsed, locSite, locResult,
          page_num, all_urls, fetched, found_urls, crawl_pc,
          start_page, end_page, cx_page_num, consecutive_failures,
          cx_all_urls, fail_streak, cx_pc, cx_collected_at, cx_last,
          run_site, regions_given, sheet_cfg, run_pc, run_error, region_idx,
          profile_list, region_contacts, all_contacts, seen_urls, csv_file,
          worksheet, collected, last_visit, interrupted, args, run_urls, scraped,
          sheet_log, visited_urls,
          ib_n, ib_card, ib_shows, ib_contacts, ib_last, ib_pc,
          tel_links, phone_result, ph_pc>>

(***************************************************************************)
(* Characters and the str methods the source uses                          *)
(***************************************************************************)
UpperLetters ==
    <<"A", "B", "C", "D", "E", "F", "G", "H", "I", "J", "K", "L", "M",
      "N", "O", "P", "Q", "R", "S", "T", "U", "V", "W", "X", "Y", "Z">>

LowerLetters ==
    <<"a", "b", "c", "d", "e", "f", "g", "h", "i", "j", "k", "l", "m",
      "n", "o", "p", "q", "r", "s", "t", "u", "v", "w", "x", "y", "z">>

UpperSet == {UpperLetters[i] : i \in 1..Len(UpperLetters)}

LowerSet == {LowerLetters[i] : i \in 1..Len(LowerLetters)}

DigitSet == {"0", "1", "2", "3", "4", "5", "6", "7", "8", "9"}

IsUpper(c) == c \in UpperSet

IsLower(c) == c \in LowerSet

IsLetter(c) == IsUpper(c) \/ IsLower(c)

IsDigit(c) == c \in DigitSet

IsSpace(c) == c = " "

IsWordChar(c) == IsLetter(c) \/ IsDigit(c) \/ c = "_"

LowerChar(c) ==
    IF IsUpper(c)
    THEN LowerLetters[CHOOSE i \in 1..Len(UpperLetters) : UpperLetters[i] = c]
    ELSE c

UpperChar(c) ==
    IF IsLower(c)
    THEN UpperLetters[CHOOSE i \in 1..Len(LowerLetters) : LowerLetters[i] = c]
    ELSE c

\* str.lower()
StrLower(s) == [i \in 1..Len(s) |-> LowerChar(s[i])]

\* str.upper()
StrUpper(s) == [i \in 1..Len(s) |-> UpperChar(s[i])]

RECURSIVE LStrip(_)
LStrip(s) ==
    IF s # <<>> /\ IsSpace(Head(s)) THEN LStrip(Tail(s)) ELSE s

RECURSIVE RStrip(_)
RStrip(s) ==
    IF s # <<>> /\ IsSpace(s[Len(s)]) THEN RStrip(SubSeq(s, 1, Len(s) - 1)) ELSE s

\* str.strip()
Strip(s) == RStrip(LStrip(s))

\* needle in haystack
Contains(haystack, needle) ==
    \E i \in 0..(Len(haystack) - Len(needle)) :
        \A j \in 1..Len(needle) : haystack[i + j] = needle[j]

\* re.sub(r"\D", "", s)  /  Series.str.replace(r"\D", "", regex=True)
DigitsOnly(s) == SelectSeq(s, IsDigit)

NA == <<"N", "/", "A">>

\* Python's None, a value no string is equal to
None == <<"None">>

Pipe == <<"|">>

(***************************************************************************)
(* ecw_scraper_data.py: BrokerContact, contacts_to_dataframe,              *)
(* clean_contacts_dataframe                                                *)
(***************************************************************************)
CSV_COLUMNS ==
    <<"Full Name", "Phone Number", "Location (City, State)", "Company",
      "Email Address", "URL", "Notes (URL Link)">>

BrokerContact(full_name, phone_number, location, company, email, source_url, notes) ==
    [full_name |-> full_name, phone_number |-> phone_number, location |-> location,
     company |-> company, email |-> email, source_url |-> source_url, notes |-> notes]

\* index of the first "," of s, 0 when there is none
FirstComma(s) ==
    IF \E i \in 1..Len(s) : s[i] = ","
    THEN CHOOSE i \in 1..Len(s) : s[i] = "," /\ \A j \in 1..(i - 1) : s[j] # ","
    ELSE 0

\* number of whitespace characters of s from index i on (\s* is greedy)
RECURSIVE SpacesFrom(_, _)
SpacesFrom(s, i) ==
    IF i <= Len(s) /\ IsSpace(s[i]) THEN 1 + SpacesFrom(s, i + 1) ELSE 0

\* re.compile(r"^[^,]+,\s*[A-Za-z]{2}$").match(s): [^,]+ stops at the first
\* comma, which must be followed by spaces, two letters and the end
_CITY_STATE_ONLY(s) ==
    LET c == FirstComma(s)
        k == c + 1 + SpacesFrom(s, c + 1)
    IN  /\ c >= 2
        /\ k + 1 = Len(s)
        /\ IsLetter(s[k])
        /\ IsLetter(s[k + 1])

\* _na_or without its "N/A" for an empty text
NaOrKeepsEmpty(value) ==
    IF value = None THEN NA ELSE Strip(value)

_na_or(value) ==
    IF value = None
    THEN NA
    ELSE LET text == Strip(value) IN IF text # <<>> THEN text ELSE NA

_location_city_state_only(loc) ==
    LET s == _na_or(loc)
    IN  IF s = NA \/ Len(s) > 80
        THEN NA
        ELSE IF _CITY_STATE_ONLY(s) THEN s ELSE NA

ContactRow(c) ==
    [col \in {CSV_COLUMNS[i] : i \in 1..Len(CSV_COLUMNS)} |->
        CASE col = "Full Name" -> _na_or(c.full_name)
          [] col = "Phone Number" -> _na_or(c.phone_number)
          [] col = "Location (City, State)" -> _location_city_state_only(c.location)
          [] col = "Company" -> _na_or(c.company)
          [] col = "Email Address" -> _na_or(c.email)
          [] col = "URL" -> _na_or(c.source_url)
          [] OTHER -> _na_or(c.notes)]

contacts_to_dataframe(cs) == [i \in 1..Len(cs) |-> ContactRow(cs[i])]

\* df[col] = df[col].astype(str).str.strip(), for every column
StripRow(r) == [col \in DOMAIN r |-> Strip(r[col])]

\* the key without the \D removal: phone formatting would matter
KeyWithRawPhone(r) ==
    StrLower(r["Full Name"]) \o Pipe \o r["Phone Number"] \o Pipe
        \o StrLower(r["Company"])

_key_with_phone(r) ==
    StrLower(r["Full Name"]) \o Pipe \o DigitsOnly(r["Phone Number"]) \o Pipe
        \o StrLower(r["Company"])

_key_no_phone(r) == StrLower(r["Full Name"]) \o Pipe \o StrLower(r["Company"])

\* the key with the phone left out for every row
KeyIgnoringPhone(r) == StrLower(r["Full Name"]) \o Pipe \o StrLower(r["Company"])

\* _dedup_key: _key_with_phone, replaced by _key_no_phone where the (stripped)
\* phone cell is the empty string
_dedup_key(r) ==
    IF Strip(r["Phone Number"]) = <<>> THEN _key_no_phone(r) ELSE _key_with_phone(r)

\* DataFrame.drop_duplicates(subset="_dedup_key"): keep="first", order kept
RECURSIVE DropDuplicatesFrom(_, _)
DropDuplicatesFrom(rows, seen) ==
    IF rows = <<>>
    THEN <<>>
    ELSE LET k == _dedup_key(Head(rows))
         IN  IF k \in seen
             THEN DropDuplicatesFrom(Tail(rows), seen)
             ELSE <<Head(rows)>> \o DropDuplicatesFrom(Tail(rows), seen \cup {k})

Reverse(rows) == [i \in 1..Len(rows) |-> rows[Len(rows) + 1 - i]]

\* drop_duplicates(keep="last"): the last row of each key survives
DropDuplicatesKeepLast(rows) == Reverse(DropDuplicatesFrom(Reverse(rows), {}))

drop_duplicates(rows) == DropDuplicatesFrom(rows, {})

clean_contacts_dataframe(d) ==
    IF d = <<>>
    THEN d
    ELSE drop_duplicates([i \in 1..Len(d) |-> StripRow(d[i])])

(***************************************************************************)
(* The save step of a site script: the contacts collected by the profile   *)
(* loop, then contacts_to_dataframe, then clean_contacts_dataframe         *)
(***************************************************************************)
MaxContacts == 3

\* full names and companies as the extractors read them off a profile page
Names == { <<"J", "d">>, <<" ", "j", "D", " ">> }

Companies == { <<"A", "c">>, <<" ", "a", "C">> }

\* phones as the extractors return them: "N/A" when none is found, else a
\* number in some format ("5-1" and "(5) 1" have the same digits)
Phones == { NA, <<"5", "-", "1">>, <<"(", "5", ")", " ", "1">>, <<"5", "2">> }

DigitChars == <<"0", "1", "2", "3", "4", "5", "6", "7", "8", "9">>

\* the i-th profile URL visited (a profile URL is visited once per run)
ProfileUrl(i) == <<"u", DigitChars[i + 1]>>

\* what the i-th contact holds besides name, phone and company: a value, the
\* empty string, blanks only, or None
ProfileLocation(i) ==
    CASE i % 3 = 1 -> <<>>
      [] i % 3 = 2 -> <<"M", "i", ",", " ", "F", "L">>
      [] OTHER -> <<" ", " ">>

ProfileEmail(i) ==
    CASE i % 3 = 1 -> <<"e", "@", "x">>
      [] i % 3 = 2 -> <<>>
      [] OTHER -> None

ProfileNotes(i) ==
    IF i % 2 = 1
    THEN <<"c", "a", "r", " ", "w", "a", "s", "h">>
    ELSE <<"c", "a", "r", "w", "a", "s", "h">>

ExportStart ==
    /\ contacts = <<>>
    /\ df = <<>>
    /\ df_clean = <<>>
    /\ pc = "scrape"

\* no keyword matcher is running
KwIdle ==
    /\ body = <<>>
    /\ kwSite = "none"
    /\ kwRead = FALSE
    /\ kwResult = <<>>

\* no location extractor is running
LocIdle ==
    /\ locBody = <<>>
    /\ locParsed = <<>>
    /\ locSite = "none"
    /\ locResult = <<>>

\* no directory crawl is running
CrawlIdle ==
    /\ page_num = 1
    /\ all_urls = {}
    /\ fetched = <<>>
    /\ found_urls = {}
    /\ crawl_pc = "idle"

\* nothing but the part a specification is about is running
\* no Crexi crawl is running
CxIdle ==
    /\ start_page = 1
    /\ end_page = 1
    /\ cx_page_num = 1
    /\ consecutive_failures = 0
    /\ cx_all_urls = <<>>
    /\ fail_streak = 0
    /\ cx_pc = "idle"
    /\ cx_collected_at = {}
    /\ cx_last = <<>>

\* no site script is running
RunIdle ==
    /\ run_site = "none"
    /\ regions_given = FALSE
    /\ sheet_cfg = "off"
    /\ run_pc = "idle"
    /\ run_error = "none"
    /\ region_idx = 0
    /\ profile_list = <<>>
    /\ region_contacts = <<>>
    /\ all_contacts = <<>>
    /\ seen_urls = {}
    /\ csv_file = <<>>
    /\ worksheet = <<>>
    /\ collected = <<>>
    /\ last_visit = <<>>
    /\ interrupted = FALSE
    /\ args = {}
    /\ run_urls = <<>>
    /\ scraped = {}
    /\ sheet_log = <<>>
    /\ visited_urls = <<>>

IbIdle ==
    /\ ib_n = 0
    /\ ib_card = 0
    /\ ib_shows = "none"
    /\ ib_contacts = 0
    /\ ib_last = <<>>
    /\ ib_pc = "idle"

PhIdle ==
    /\ tel_links = <<>>
    /\ phone_result = <<>>
    /\ ph_pc = "idle"

OthersIdle == CrawlIdle /\ CxIdle /\ RunIdle /\ IbIdle /\ PhIdle

ExportInit == ExportStart /\ KwIdle /\ LocIdle /\ OthersIdle

\* contacts.append(BrokerContact(...)) of the profile loop
AppendContact ==
    /\ pc = "scrape"
    /\ Len(contacts) < MaxContacts
    /\ \E n \in Names, p \in Phones, c \in Companies :
         LET i == Len(contacts) + 1
         IN  contacts' = Append(contacts,
                 BrokerContact(n, p, ProfileLocation(i), c, ProfileEmail(i),
                               ProfileUrl(i), ProfileNotes(i)))
    /\ UNCHANGED <<df, df_clean, pc, kwVars, locVars, otherVars>>

\* df = contacts_to_dataframe(all_contacts)
ContactsToDataframe ==
    /\ pc = "scrape"
    /\ df' = contacts_to_dataframe(contacts)
    /\ pc' = "framed"
    /\ UNCHANGED <<contacts, df_clean, kwVars, locVars, otherVars>>

\* df_clean = clean_contacts_dataframe(df)
CleanContactsDataframe ==
    /\ pc = "framed"
    /\ df_clean' = clean_contacts_dataframe(df)
    /\ pc' = "cleaned"
    /\ UNCHANGED <<contacts, df, kwVars, locVars, otherVars>>

Next ==
    \/ AppendContact
    \/ ContactsToDataframe
    \/ CleanContactsDataframe

Spec == ExportInit /\ [][Next]_vars

(***************************************************************************)
(* Claims about deduplication (checked under Spec)                         *)
(***************************************************************************)
\* the dedup key clean_contacts_dataframe computes for input row i
RowKey(i) == _dedup_key(StripRow(df[i]))

\* the input rows that are the first of their key
FirstOfKey == {i \in 1..Len(df) : \A h \in 1..(i - 1) : RowKey(h) # RowKey(i)}

NthFirst(j) == CHOOSE i \in FirstOfKey : Cardinality({h \in FirstOfKey : h < i}) = j - 1

OutUrls == {df_clean[j]["URL"] : j \in 1..Len(df_clean)}

\* C1: the output of clean_contacts_dataframe is the subsequence of its input
\* made of the first row of each dedup key: same rows (all fields of the
\* first-seen record), same relative order, no key twice.
C1_FirstSeenWins ==
    pc = "cleaned" =>
        /\ Len(df_clean) = Cardinality(FirstOfKey)
        /\ \A j \in 1..Len(df_clean) : df_clean[j] = df[NthFirst(j)]
        /\ \A a, b \in 1..Len(df_clean) :
               a # b => _dedup_key(df_clean[a]) # _dedup_key(df_clean[b])

\* three rows, the third a duplicate of the first with other fields: the first
\* and the second survive, in that order
C1_Witness ==
    /\ pc = "cleaned"
    /\ Len(df) = 3
    /\ RowKey(1) = RowKey(3)
    /\ RowKey(1) # RowKey(2)
    /\ df[1] # df[3]
    /\ df_clean = <<df[1], df[2]>>

\* a record has a phone when its phone field is neither missing, blank nor "N/A"
HasPhone(c) == c.phone_number # None /\ Strip(c.phone_number) \notin {<<>>, NA}

\* the key of the data model: name|digits|company with a phone, else name|company
DataModelKey(c) ==
    IF HasPhone(c)
    THEN StrLower(Strip(c.full_name)) \o Pipe \o DigitsOnly(c.phone_number) \o Pipe
             \o StrLower(Strip(c.company))
    ELSE StrLower(Strip(c.full_name)) \o Pipe \o StrLower(Strip(c.company))

\* C2: in contacts_to_dataframe followed by clean_contacts_dataframe the dedup
\* key of a record is lower(name)|digits(phone)|lower(company) when it has a
\* phone and the two-component lower(name)|lower(company) when it has none.
C2_DedupKeyFormat ==
    pc = "cleaned" => \A i \in 1..Len(contacts) : RowKey(i) = DataModelKey(contacts[i])

PhonesAgree(a, b) ==
    \/ ~HasPhone(a) /\ ~HasPhone(b)
    \/ /\ HasPhone(a)
       /\ HasPhone(b)
       /\ DigitsOnly(a.phone_number) = DigitsOnly(b.phone_number)

\* no record before j, other than i, has the key of record i or of record j
NoOtherDuplicate(i, j) ==
    \A h \in 1..(j - 1) : h # i => RowKey(h) \notin {RowKey(i), RowKey(j)}

\* C3: two records with identical name and company are duplicates exactly when
\* their phones agree (both lack a phone, or both have one with the same
\* digits): then the later one is dropped; otherwise (one lacks a phone, or the
\* digits differ) both are kept unless a third record duplicates one of them.
C3_PhoneAgreement ==
    pc = "cleaned" =>
        \A i, j \in 1..Len(contacts) :
            (/\ i < j
             /\ contacts[i].full_name = contacts[j].full_name
             /\ contacts[i].company = contacts[j].company)
            => /\ (RowKey(i) = RowKey(j)) <=> PhonesAgree(contacts[i], contacts[j])
               /\ PhonesAgree(contacts[i], contacts[j])
                      => contacts[j].source_url \notin OutUrls
               /\ (~PhonesAgree(contacts[i], contacts[j]) /\ NoOtherDuplicate(i, j))
                      => {contacts[i].source_url, contacts[j].source_url} \subseteq OutUrls

\* same name and company three times: no phone, a phone, the same phone in
\* another format; the first two are kept, the third is dropped
C3_Witness ==
    /\ pc = "cleaned"
    /\ Len(contacts) = 3
    /\ contacts[1].full_name = contacts[2].full_name
    /\ contacts[2].full_name = contacts[3].full_name
    /\ contacts[1].company = contacts[2].company
    /\ contacts[2].company = contacts[3].company
    /\ ~HasPhone(contacts[1])
    /\ HasPhone(contacts[2])
    /\ HasPhone(contacts[3])
    /\ contacts[2].phone_number # contacts[3].phone_number
    /\ OutUrls = {contacts[1].source_url, contacts[2].source_url}

SameUpToCaseAndSpace(x, y) == StrLower(Strip(x)) = StrLower(Strip(y))

\* C4: records whose names and companies are equal up to letter case and
\* surrounding whitespace and whose phones have the same digits get the same
\* key, whatever their other fields are, so the later one is not in the output.
C4_KeyInsensitive ==
    pc = "cleaned" =>
        \A i, j \in 1..Len(contacts) :
            (/\ i < j
             /\ SameUpToCaseAndSpace(contacts[i].full_name, contacts[j].full_name)
             /\ SameUpToCaseAndSpace(contacts[i].company, contacts[j].company)
             /\ HasPhone(contacts[i])
             /\ HasPhone(contacts[j])
             /\ DigitsOnly(contacts[i].phone_number) = DigitsOnly(contacts[j].phone_number))
            => /\ RowKey(i) = RowKey(j)
               /\ contacts[j].source_url \notin OutUrls

\* two records that differ in the case and spacing of name and company, in the
\* phone format, in location, email, URL and notes: only the first is output
C4_Witness ==
    /\ pc = "cleaned"
    /\ Len(contacts) = 2
    /\ contacts[1].full_name # contacts[2].full_name
    /\ contacts[1].company # contacts[2].company
    /\ contacts[1].phone_number # contacts[2].phone_number
    /\ HasPhone(contacts[1])
    /\ DigitsOnly(contacts[1].phone_number) = DigitsOnly(contacts[2].phone_number)
    /\ contacts[1].location # contacts[2].location
    /\ contacts[1].email # contacts[2].email
    /\ contacts[1].notes # contacts[2].notes
    /\ df_clean = <<df[1]>>

\* the field of a contact that a column of the frame is built from
ColumnField(c, col) ==
    CASE col = "Full Name" -> c.full_name
      [] col = "Phone Number" -> c.phone_number
      [] col = "Location (City, State)" -> c.location
      [] col = "Company" -> c.company
      [] col = "Email Address" -> c.email
      [] col = "URL" -> c.source_url
      [] OTHER -> c.notes

\* a field that is None, empty or blanks only
Missing(value) == value = None \/ Strip(value) = <<>>

NonEmptyCells(rows) ==
    \A i \in 1..Len(rows) : \A col \in DOMAIN rows[i] :
        /\ rows[i][col] # None
        /\ Strip(rows[i][col]) # <<>>

\* C18: every cell of every row of contacts_to_dataframe, hence of the rows
\* written to the CSV or sent to the worksheet, is a non-empty string: a field
\* that is None, empty or blanks only is output as "N/A"
C18_NoEmptyCell ==
    /\ NonEmptyCells(df)
    /\ NonEmptyCells(df_clean)
    /\ pc # "scrape" =>
          \A i \in 1..Len(df) : \A col \in DOMAIN df[i] :
              Missing(ColumnField(contacts[i], col)) => df[i][col] = NA

\* three contacts framed: an empty location, an empty email, and a contact
\* whose location is blanks only and whose email is None
C18_Witness ==
    /\ pc = "cleaned"
    /\ Len(contacts) = 3
    /\ contacts[1].location = <<>>
    /\ contacts[2].email = <<>>
    /\ contacts[3].location = <<" ", " ">>
    /\ contacts[3].email = None
    /\ df[3]["Email Address"] = NA
    /\ df[3]["Location (City, State)"] = NA
    /\ df[1]["Email Address"] = <<"e", "@", "x">>

(***************************************************************************)
(* Keyword matchers                                                        *)
(***************************************************************************)
\* bizquest_scraper.ECW_KEYWORDS
BIZQUEST_ECW_KEYWORDS ==
    << 
       <<"e", "x", "p", "r", "e", "s", "s", " ", "c", "a", "r", " ", "w", "a", "s", "h">>,   \* "express car wash"
       <<"e", "x", "p", "r", "e", "s", "s", " ", "w", "a", "s", "h">>,   \* "express wash"
       <<"t", "u", "n", "n", "e", "l", " ", "w", "a", "s", "h">>,   \* "tunnel wash"
       <<"c", "a", "r", " ", "w", "a", "s", "h">>,   \* "car wash"
       <<"c", "a", "r", "w", "a", "s", "h">>,   \* "carwash"
       <<"c", "o", "n", "v", "e", "y", "o", "r", " ", "w", "a", "s", "h">>   \* "conveyor wash"
    >>

\* businessbroker_scraper.ECW_KEYWORDS
BUSINESSBROKER_ECW_KEYWORDS ==
    << 
       <<"e", "x", "p", "r", "e", "s", "s", " ", "c", "a", "r", " ", "w", "a", "s", "h">>,   \* "express car wash"
       <<"e", "x", "p", "r", "e", "s", "s", " ", "w", "a", "s", "h">>,   \* "express wash"
       <<"t", "u", "n", "n", "e", "l", " ", "w", "a", "s", "h">>,   \* "tunnel wash"
       <<"c", "a", "r", " ", "w", "a", "s", "h">>,   \* "car wash"
       <<"c", "a", "r", "w", "a", "s", "h">>,   \* "carwash"
       <<"c", "o", "n", "v", "e", "y", "o", "r", " ", "w", "a", "s", "h">>   \* "conveyor wash"
    >>

\* ibba_scraper.ECW_KEYWORDS
IBBA_ECW_KEYWORDS ==
    << 
       <<"C", "a", "r", " ", "W", "a", "s", "h">>,   \* "Car Wash"
       <<"E", "x", "p", "r", "e", "s", "s", " ", "W", "a", "s", "h">>,   \* "Express Wash"
       <<"T", "u", "n", "n", "e", "l", " ", "W", "a", "s", "h">>,   \* "Tunnel Wash"
       <<"W", "a", "s", "h", " ", "C", "o", "n", "c", "e", "p", "t", "s">>   \* "Wash Concepts"
    >>

\* crexi_scraper.KEYWORDS
KEYWORDS ==
    << 
       <<"e", "x", "p", "r", "e", "s", "s", " ", "c", "a", "r", " ", "w", "a", "s", "h">>,   \* "express car wash"
       <<"e", "x", "p", "r", "e", "s", "s", " ", "w", "a", "s", "h">>,   \* "express wash"
       <<"t", "u", "n", "n", "e", "l", " ", "w", "a", "s", "h">>,   \* "tunnel wash"
       <<"c", "a", "r", " ", "w", "a", "s", "h">>,   \* "car wash"
       <<"c", "a", "r", "w", "a", "s", "h">>,   \* "carwash"
       <<"c", "o", "n", "v", "e", "y", "o", "r", " ", "w", "a", "s", "h">>,   \* "conveyor wash"
       <<"o", "w", "n", "e", "r", "-", "u", "s", "e", "r", " ", "s", "a", "l", "e">>,   \* "owner-user sale"
       <<"o", "w", "n", "e", "r", "-", "u", "s", "e", "r">>,   \* "owner-user"
       <<"p", "a", "d", " ", "s", "i", "t", "e">>,   \* "pad site"
       <<"r", "e", "t", "a", "i", "l", " ", "p", "a", "d", " ", "s", "i", "t", "e">>,   \* "retail pad site"
       <<"u", "n", "d", "e", "r", "p", "e", "r", "f", "o", "r", "m", "i", "n", "g", " ", "a", "s", "s", "e", "t">>,   \* "underperforming asset"
       <<"a", "u", "t", "o", "m", "o", "t", "i", "v", "e", " ", "r", "e", "a", "l", " ", "e", "s", "t", "a", "t", "e">>,   \* "automotive real estate"
       <<"s", "t", "a", "n", "d", "-", "a", "l", "o", "n", "e", " ", "b", "u", "i", "l", "d", "i", "n", "g">>,   \* "stand-alone building"
       <<"s", "t", "a", "n", "d", "-", "a", "l", "o", "n", "e", " ", "r", "e", "t", "a", "i", "l">>,   \* "stand-alone retail"
       <<"s", "e", "r", "v", "i", "c", "e", " ", "s", "t", "a", "t", "i", "o", "n">>,   \* "service station"
       <<"g", "a", "s", " ", "s", "t", "a", "t", "i", "o", "n">>,   \* "gas station"
       <<"o", "i", "l", " ", "c", "h", "a", "n", "g", "e">>,   \* "oil change"
       <<"l", "u", "b", "e", " ", "c", "e", "n", "t", "e", "r">>,   \* "lube center"
       <<"t", "i", "r", "e", " ", "s", "h", "o", "p">>,   \* "tire shop"
       <<"s", "a", "l", "e", " ", "l", "e", "a", "s", "e", "b", "a", "c", "k">>,   \* "sale leaseback"
       <<"s", "l", "b">>   \* "slb"
    >>

\* a matcher that tests the keywords against the text as read, not lowercased
KeywordsFoundCaseSensitive(keywords, text) ==
    SelectSeq(keywords, LAMBDA kw : Contains(text, kw))

\* lower = body.lower(); found = [kw for kw in ECW_KEYWORDS if kw in lower]
KeywordsFound(keywords, text) ==
    LET lower == StrLower(text)
    IN  SelectSeq(keywords, LAMBDA kw : Contains(lower, kw))

\* bizquest_scraper._profile_contains_ecw_keywords, given the body text read
BizQuest_profile_contains_ecw_keywords(text) ==
    LET found == KeywordsFound(BIZQUEST_ECW_KEYWORDS, text)
    IN  <<Len(found) > 0, found>>

\* businessbroker_scraper._profile_contains_ecw_keywords, given the body text
BusinessBroker_profile_contains_ecw_keywords(text) ==
    LET found == KeywordsFound(BUSINESSBROKER_ECW_KEYWORDS, text)
    IN  <<Len(found) > 0, found>>

\* ibba_scraper._profile_contains_ecw_keyword(bio_specialties)
Ibba_profile_contains_ecw_keyword(bio_specialties) ==
    IF bio_specialties = <<>> \/ bio_specialties = NA
    THEN <<FALSE, <<>>>>
    ELSE LET text == StrLower(bio_specialties)
             found == SelectSeq(IBBA_ECW_KEYWORDS,
                                LAMBDA kw : Contains(text, StrLower(kw)))
         IN  <<Len(found) > 0, found>>

(***************************************************************************)
(* crexi_scraper.py: listings and _profile_contains_keywords               *)
(***************************************************************************)
\* an exception leaving a function
Raise == <<"raise">>

Space == <<" ">>

\* str.title(): a letter is uppercased after a non-letter, lowercased after a letter
TitleCase(s) ==
    [i \in 1..Len(s) |->
        IF i = 1 \/ ~IsLetter(s[i - 1]) THEN UpperChar(s[i]) ELSE LowerChar(s[i])]

\* str.split(): the maximal runs of non-whitespace characters
RECURSIVE SplitFrom(_, _, _)
SplitFrom(s, i, word) ==
    IF i > Len(s)
    THEN IF word = <<>> THEN <<>> ELSE <<word>>
    ELSE IF IsSpace(s[i])
         THEN (IF word = <<>> THEN <<>> ELSE <<word>>) \o SplitFrom(s, i + 1, <<>>)
         ELSE SplitFrom(s, i + 1, Append(word, s[i]))

Split(s) == SplitFrom(s, 1, <<>>)

\* " ".join(words)
RECURSIVE JoinWords(_)
JoinWords(words) ==
    IF words = <<>>
    THEN <<>>
    ELSE IF Len(words) = 1
         THEN words[1]
         ELSE words[1] \o Space \o JoinWords(Tail(words))

property_types ==
    << 
       <<"g", "a", "s", " ", "s", "t", "a", "t", "i", "o", "n">>,   \* "gas station"
       <<"f", "o", "r", "m", "e", "r", " ", "g", "a", "s", " ", "s", "t", "a", "t", "i", "o", "n">>,   \* "former gas station"
       <<"g", "a", "s", " ", "s", "t", "a", "t", "i", "o", "n", " ", "s", "i", "t", "e">>,   \* "gas station site"
       <<"c", "a", "r", " ", "w", "a", "s", "h">>,   \* "car wash"
       <<"c", "a", "r", "w", "a", "s", "h">>,   \* "carwash"
       <<"e", "x", "p", "r", "e", "s", "s", " ", "c", "a", "r", " ", "w", "a", "s", "h">>,   \* "express car wash"
       <<"t", "u", "n", "n", "e", "l", " ", "w", "a", "s", "h">>,   \* "tunnel wash"
       <<"r", "e", "t", "a", "i", "l">>,   \* "retail"
       <<"r", "e", "t", "a", "i", "l", " ", "p", "r", "o", "p", "e", "r", "t", "y">>,   \* "retail property"
       <<"r", "e", "t", "a", "i", "l", " ", "b", "u", "i", "l", "d", "i", "n", "g">>,   \* "retail building"
       <<"o", "f", "f", "i", "c", "e">>,   \* "office"
       <<"o", "f", "f", "i", "c", "e", " ", "b", "u", "i", "l", "d", "i", "n", "g">>,   \* "office building"
       <<"o", "f", "f", "i", "c", "e", " ", "s", "p", "a", "c", "e">>,   \* "office space"
       <<"i", "n", "d", "u", "s", "t", "r", "i", "a", "l">>,   \* "industrial"
       <<"w", "a", "r", "e", "h", "o", "u", "s", "e">>,   \* "warehouse"
       <<"d", "i", "s", "t", "r", "i", "b", "u", "t", "i", "o", "n">>,   \* "distribution"
       <<"l", "a", "n", "d">>,   \* "land"
       <<"v", "a", "c", "a", "n", "t", " ", "l", "a", "n", "d">>,   \* "vacant land"
       <<"d", "e", "v", "e", "l", "o", "p", "m", "e", "n", "t", " ", "l", "a", "n", "d">>,   \* "development land"
       <<"r", "e", "s", "t", "a", "u", "r", "a", "n", "t">>,   \* "restaurant"
       <<"q", "s", "r">>,   \* "qsr"
       <<"f", "a", "s", "t", " ", "f", "o", "o", "d">>,   \* "fast food"
       <<"a", "u", "t", "o", "m", "o", "t", "i", "v", "e">>,   \* "automotive"
       <<"a", "u", "t", "o", " ", "s", "e", "r", "v", "i", "c", "e">>,   \* "auto service"
       <<"a", "u", "t", "o", " ", "r", "e", "p", "a", "i", "r">>,   \* "auto repair"
       <<"s", "p", "e", "c", "i", "a", "l", " ", "p", "u", "r", "p", "o", "s", "e">>,   \* "special purpose"
       <<"s", "p", "e", "c", "i", "a", "l", "t", "y">>   \* "specialty"
    >>

Former == <<"f", "o", "r", "m", "e", "r">>

PropertyListing == <<"P", "r", "o", "p", "e", "r", "t", "y", " ", "L", "i", "s", "t", "i", "n", "g">>

_extract_property_type_from_text(text) ==
    LET text_lower == StrLower(text)
        hits == SelectSeq(property_types, LAMBDA t : Contains(text_lower, t))
        words == Split(text_lower)
    IN  IF hits # <<>>
        THEN TitleCase(hits[1])
        ELSE IF Contains(text_lower, Former)
             THEN IF \A k \in 1..Len(words) : words[k] # Former
                  THEN Raise    \* words.index("former"): ValueError
                  ELSE LET idx == CHOOSE k \in 1..Len(words) :
                                      /\ words[k] = Former
                                      /\ \A h \in 1..(k - 1) : words[h] # Former
                       IN  IF idx + 1 <= Len(words)
                           THEN <<"F", "o", "r", "m", "e", "r", " ">>
                                    \o TitleCase(words[idx + 1])
                           ELSE <<>>
             ELSE <<>>

\* the text read off one listing card: title, description, type line, and the
\* text of the card's parent element
Card(title, description, listing_type_raw, parent_text) ==
    [title |-> title, description |-> description,
     listing_type_raw |-> listing_type_raw, parent_text |-> parent_text]

full_text_raw(card) ==
    Strip(card.title \o Space \o card.description \o Space \o card.listing_type_raw)

\* the dict _extract_listings_data builds for a card
ListingData(card) ==
    LET raw == full_text_raw(card)
        property_type == _extract_property_type_from_text(raw)
    IN  [title |-> StrLower(card.title),
         description |-> StrLower(card.description),
         type |-> IF property_type # <<>>
                  THEN property_type
                  ELSE Strip(card.listing_type_raw),
         full_text |-> StrLower(raw)]

\* a card is skipped when it has no text or when reading it raises
CardSkipped(card) ==
    \/ full_text_raw(card) = <<>>
    \/ _extract_property_type_from_text(full_text_raw(card)) = Raise

CardIsSold(card) ==
    LET card_text == StrLower(full_text_raw(card)) \o Space \o StrLower(card.parent_text)
    IN  \/ Contains(card_text, <<"s", "o", "l", "d">>)
        \/ Contains(card_text, <<"c", "l", "o", "s", "e", "d">>)
        \/ Contains(card_text, <<"t", "r", "a", "n", "s", "a", "c", "t", "i", "o", "n">>)

\* _extract_listings_data over the listing cards of the page (the section
\* fallback of lines 300-330 needs a section header in the body text)
_extract_listings_data(cards) ==
    LET kept == SelectSeq(cards, LAMBDA c : ~CardSkipped(c))
        sold == SelectSeq(kept, CardIsSold)
        active == SelectSeq(kept, LAMBDA c : ~CardIsSold(c))
    IN  <<[i \in 1..Len(active) |-> ListingData(active[i])],
          [i \in 1..Len(sold) |-> ListingData(sold[i])]>>

Prefix(s, n) == SubSeq(s, 1, IF Len(s) < n THEN Len(s) ELSE n)

\* matched_listing_type of the first listing in which a keyword is found
ListingTypeOf(listing) ==
    IF listing.type # <<>>
    THEN listing.type
    ELSE IF listing.title # <<>>
         THEN LET prop_type == _extract_property_type_from_text(listing.title)
              IN  IF prop_type # <<>> THEN prop_type ELSE Prefix(listing.title, 50)
         ELSE IF listing.description # <<>>
              THEN LET prop_type ==
                           _extract_property_type_from_text(Prefix(listing.description, 200))
                   IN  IF prop_type # <<>> THEN prop_type ELSE PropertyListing
              ELSE PropertyListing

\* the keywords of KEYWORDS found in one listing's full_text, in KEYWORDS order
ListingKeywords(listing) ==
    SelectSeq(KEYWORDS, LAMBDA kw : Contains(listing.full_text, StrLower(kw)))

\* if kw not in found_keywords: found_keywords.append(kw), for each kw of kws
RECURSIVE AppendNew(_, _)
AppendNew(found, kws) ==
    IF kws = <<>>
    THEN found
    ELSE AppendNew(IF \E i \in 1..Len(found) : found[i] = Head(kws)
                   THEN found
                   ELSE Append(found, Head(kws)),
                   Tail(kws))

\* one of the two loops of _check_keywords_in_listings; acc is the triple
\* (found_keywords, matched_listing_type, match_source) or Raise
RECURSIVE CheckListings(_, _, _)
CheckListings(listings, source, acc) ==
    IF acc = Raise \/ listings = <<>>
    THEN acc
    ELSE LET listing == Head(listings)
             kws == ListingKeywords(listing)
             first == kws # <<>> /\ acc[2] = None
         IN  IF first /\ ListingTypeOf(listing) = Raise
             THEN Raise
             ELSE CheckListings(Tail(listings), source,
                      <<AppendNew(acc[1], kws),
                        IF first THEN ListingTypeOf(listing) ELSE acc[2],
                        IF first THEN source ELSE acc[3]>>)

_check_keywords_in_listings(active_listings, sold_listings) ==
    LET r == CheckListings(sold_listings, <<"S", "o", "l", "d">>,
                 CheckListings(active_listings, <<"A", "c", "t", "i", "v", "e">>,
                               <<(<<>>), None, None>>))
    IN  IF r = Raise THEN Raise ELSE <<Len(r[1]) > 0, r[1], r[2], r[3]>>

SeqToSet(seq) == {seq[i] : i \in 1..Len(seq)}

\* the orders in which list(set(...)) can enumerate a set of strings: the
\* iteration order of a set of str depends on the per-process hash seed
RECURSIVE SetOrders(_)
SetOrders(S) ==
    IF S = {}
    THEN {<<>>}
    ELSE UNION {{<<x>> \o rest : rest \in SetOrders(S \ {x})} : x \in S}

\* the keywords of _profile_contains_keywords before list(set(...))
CrexiKeywordSet(text, listings) ==
    LET lower == StrLower(text)
        bio_keywords == SelectSeq(KEYWORDS, LAMBDA kw : Contains(lower, StrLower(kw)))
        chk == _check_keywords_in_listings(listings[1], listings[2])
    IN  IF chk = Raise THEN {} ELSE SeqToSet(bio_keywords \o chk[2])

\* _profile_contains_keywords, given the body text, the listings read off the
\* page and the order all_keywords in which list(set(...)) enumerated the set
Crexi_profile_contains_keywords(text, listings, all_keywords) ==
    LET chk == _check_keywords_in_listings(listings[1], listings[2])
        has_match == Len(all_keywords) > 0
    IN  IF chk = Raise
        THEN <<FALSE, <<>>, None, None, <<>>, <<>>>>
        ELSE IF chk[1] /\ chk[3] # None /\ chk[3] # <<>>
             THEN <<has_match, all_keywords, chk[3], chk[4], listings[1], listings[2]>>
             ELSE IF chk[1]
                  THEN <<has_match, all_keywords, PropertyListing, chk[4],
                         listings[1], listings[2]>>
                  ELSE <<has_match, all_keywords, None, None, listings[1], listings[2]>>

(***************************************************************************)
(* The keyword matchers applied to a page text                             *)
(***************************************************************************)
MaxFragments == 3

\* pieces of page text; a page text is a concatenation of at most MaxFragments
Fragments ==
    { 
      <<"e", "x", "p", "r", "e", "s", "s", " ">>,
      <<"c", "a", "r">>,
      <<"c", "a", "r", " ">>,
      <<"w", "a", "s", "h">>,
      <<"T", "u", "n", "n", "e", "l", " ", "W", "a", "s", "h">>,
      <<"W", "A", "S", "H">>,
      <<" ", "c", "o", "n", "c", "e", "p", "t", "s">>,
      <<"r", "e", "t", "a", "i", "l", " ">>,
      <<"p", "a", "d", " ", "s", "i", "t", "e">>,
      <<"x">>
    }

RECURSIVE TextsUpTo(_)
TextsUpTo(n) ==
    IF n = 0
    THEN {<<>>}
    ELSE LET shorter == TextsUpTo(n - 1)
         IN  shorter \cup {t \o f : t \in shorter, f \in Fragments}

PageTexts == TextsUpTo(MaxFragments)

\* the listing cards of a Crexi profile page
CardLists ==
    { <<>>,
      <<Card(<<"T", "u", "n", "n", "e", "l", " ", "W", "a", "s", "h">>, <<>>, <<>>, <<>>)>>,
      <<Card(<<>>, <<"p", "a", "d", " ", "s", "i", "t", "e">>,
             <<"R", "e", "t", "a", "i", "l">>, <<"S", "o", "l", "d">>),
        Card(<<"C", "a", "r", " ", "W", "a", "s", "h">>, <<>>, <<>>, <<>>)>>,
      <<Card(<<"S", "L", "B", " ", "d", "e", "a", "l">>, <<>>, <<>>, <<>>),
        Card(<<"f", "o", "r", "m", "e", "r", "l", "y">>, <<>>, <<>>, <<>>)>> }

KeywordInit ==
    /\ ExportStart
    /\ body \in PageTexts
    /\ kwSite = "none"
    /\ kwRead = FALSE
    /\ kwResult = <<>>
    /\ LocIdle
    /\ OthersIdle

\* has_keywords, keywords_found = _profile_contains_ecw_keywords(page)
BizQuestKeywords ==
    /\ kwSite = "none"
    /\ \E ok \in BOOLEAN :
         /\ kwRead' = ok
         /\ kwResult' = IF ok
                        THEN BizQuest_profile_contains_ecw_keywords(body)
                        ELSE <<FALSE, <<>>>>
    /\ kwSite' = "bizquest"
    /\ UNCHANGED <<body, exportVars, locVars, otherVars>>

BusinessBrokerKeywords ==
    /\ kwSite = "none"
    /\ \E ok \in BOOLEAN :
         /\ kwRead' = ok
         /\ kwResult' = IF ok
                        THEN BusinessBroker_profile_contains_ecw_keywords(body)
                        ELSE <<FALSE, <<>>>>
    /\ kwSite' = "businessbroker"
    /\ UNCHANGED <<body, exportVars, locVars, otherVars>>

\* bio_specialties = _extract_bio_specialties(page), "N/A" when nothing is read;
\* passes, keywords_found = _profile_contains_ecw_keyword(bio_specialties)
IbbaKeywords ==
    /\ kwSite = "none"
    /\ \E ok \in BOOLEAN :
         /\ kwRead' = ok
         /\ kwResult' = Ibba_profile_contains_ecw_keyword(IF ok THEN body ELSE NA)
    /\ kwSite' = "ibba"
    /\ UNCHANGED <<body, exportVars, locVars, otherVars>>

CrexiKeywords ==
    /\ kwSite = "none"
    /\ \E ok \in BOOLEAN, cards \in CardLists, listings_read \in BOOLEAN :
         LET listings == IF listings_read
                         THEN _extract_listings_data(cards)
                         ELSE <<(<<>>), (<<>>)>>
         IN  /\ kwRead' = ok
             /\ IF ok
                THEN \E all_keywords \in SetOrders(CrexiKeywordSet(body, listings)) :
                         kwResult' = Crexi_profile_contains_keywords(
                                         body, listings, all_keywords)
                ELSE kwResult' = <<FALSE, <<>>, None, None, <<>>, <<>>>>
    /\ kwSite' = "crexi"
    /\ UNCHANGED <<body, exportVars, locVars, otherVars>>

KeywordNext ==
    \/ BizQuestKeywords
    \/ BusinessBrokerKeywords
    \/ IbbaKeywords

\* the page-text matchers of the BizQuest, BusinessBroker and IBBA scripts
SpecKeyword == KeywordInit /\ [][KeywordNext]_vars

CrexiKeywordNext == CrexiKeywords

\* the Crexi matcher over bio text and listings
SpecCrexiKeyword == KeywordInit /\ [][CrexiKeywordNext]_vars

(***************************************************************************)
(* Claims about the keyword matchers                                       *)
(***************************************************************************)
SiteKeywords(site) ==
    CASE site = "bizquest" -> BIZQUEST_ECW_KEYWORDS
      [] site = "businessbroker" -> BUSINESSBROKER_ECW_KEYWORDS
      [] site = "ibba" -> IBBA_ECW_KEYWORDS
      [] OTHER -> KEYWORDS

SiteMatcher(site, text) ==
    CASE site = "bizquest" -> BizQuest_profile_contains_ecw_keywords(text)
      [] site = "businessbroker" -> BusinessBroker_profile_contains_ecw_keywords(text)
      [] OTHER -> Ibba_profile_contains_ecw_keyword(text)

\* how often kw occurs in the list found
Occurrences(found, kw) == Cardinality({a \in 1..Len(found) : found[a] = kw})

\* position of kw in the declared list (0 when it is not declared)
DeclIndex(list, kw) ==
    IF \E k \in 1..Len(list) : list[k] = kw
    THEN CHOOSE k \in 1..Len(list) : list[k] = kw
    ELSE 0

InDeclarationOrder(found, list) ==
    /\ \A a \in 1..Len(found) : DeclIndex(list, found[a]) > 0
    /\ \A a, b \in 1..Len(found) :
           a < b => DeclIndex(list, found[a]) < DeclIndex(list, found[b])

\* C5: the BizQuest, BusinessBroker and IBBA matchers return (matched, keywords)
\* with keywords exactly the declared keywords whose lowercase form is a
\* substring of the lowercased text, in declaration order, none twice, and
\* matched iff keywords is non-empty; another letter case of the text gives
\* the same result.
C5_KeywordMatcher ==
    (kwSite \in {"bizquest", "businessbroker", "ibba"} /\ kwRead) =>
        LET list == SiteKeywords(kwSite)
            found == kwResult[2]
        IN  /\ Len(kwResult) = 2
            /\ InDeclarationOrder(found, list)
            /\ \A k \in 1..Len(list) :
                   Occurrences(found, list[k]) =
                       IF Contains(StrLower(body), StrLower(list[k])) THEN 1 ELSE 0
            /\ kwResult[1] <=> (found # <<>>)
            /\ kwResult = SiteMatcher(kwSite, StrUpper(body))
            /\ kwResult = SiteMatcher(kwSite, StrLower(body))

\* a text with upper-case letters in which two keywords are found
C5_Witness ==
    /\ kwSite = "bizquest"
    /\ kwRead
    /\ body # StrLower(body)
    /\ kwResult[1]
    /\ Len(kwResult[2]) = 2

\* C6: the Crexi keyword list holds each keyword matched in the bio or in a
\* listing exactly once, in the declaration order of KEYWORDS.
C6_CrexiDeclarationOrder ==
    (kwSite = "crexi" /\ kwRead) =>
        LET found == kwResult[2]
            listings == kwResult[5] \o kwResult[6]
            Matched(kw) ==
                \/ Contains(StrLower(body), StrLower(kw))
                \/ \E i \in 1..Len(listings) :
                       Contains(listings[i].full_text, StrLower(kw))
        IN  /\ \A k \in 1..Len(KEYWORDS) :
                   Occurrences(found, KEYWORDS[k]) = IF Matched(KEYWORDS[k]) THEN 1 ELSE 0
            /\ InDeclarationOrder(found, KEYWORDS)

\* the part of C6 that does not depend on the order of the list
CrexiEachKeywordOnce ==
    (kwSite = "crexi" /\ kwRead) =>
        LET found == kwResult[2]
            listings == kwResult[5] \o kwResult[6]
            Matched(kw) ==
                \/ Contains(StrLower(body), StrLower(kw))
                \/ \E i \in 1..Len(listings) :
                       Contains(listings[i].full_text, StrLower(kw))
        IN  \A k \in 1..Len(KEYWORDS) :
                Occurrences(found, KEYWORDS[k]) = IF Matched(KEYWORDS[k]) THEN 1 ELSE 0

(***************************************************************************)
(* Location parsing: the state table and the regular expressions           *)
(***************************************************************************)
\* the name -> abbreviation table, as <<name, abbreviation>> pairs
_US_STATE_ABBREV ==
    <<
      << <<"a", "l", "a", "b", "a", "m", "a">>,
        <<"A", "L">> >>,
      << <<"a", "l", "a", "s", "k", "a">>,
        <<"A", "K">> >>,
      << <<"a", "r", "i", "z", "o", "n", "a">>,
        <<"A", "Z">> >>,
      << <<"a", "r", "k", "a", "n", "s", "a", "s">>,
        <<"A", "R">> >>,
      << <<"c", "a", "l", "i", "f", "o", "r", "n", "i", "a">>,
        <<"C", "A">> >>,
      << <<"c", "o", "l", "o", "r", "a", "d", "o">>,
        <<"C", "O">> >>,
      << <<"c", "o", "n", "n", "e", "c", "t", "i", "c", "u", "t">>,
        <<"C", "T">> >>,
      << <<"d", "e", "l", "a", "w", "a", "r", "e">>,
        <<"D", "E">> >>,
      << <<"f", "l", "o", "r", "i", "d", "a">>,
        <<"F", "L">> >>,
      << <<"g", "e", "o", "r", "g", "i", "a">>,
        <<"G", "A">> >>,
      << <<"h", "a", "w", "a", "i", "i">>,
        <<"H", "I">> >>,
      << <<"i", "d", "a", "h", "o">>,
        <<"I", "D">> >>,
      << <<"i", "l", "l", "i", "n", "o", "i", "s">>,
        <<"I", "L">> >>,
      << <<"i", "n", "d", "i", "a", "n", "a">>,
        <<"I", "N">> >>,
      << <<"i", "o", "w", "a">>,
        <<"I", "A">> >>,
      << <<"k", "a", "n", "s", "a", "s">>,
        <<"K", "S">> >>,
      << <<"k", "e", "n", "t", "u", "c", "k", "y">>,
        <<"K", "Y">> >>,
      << <<"l", "o", "u", "i", "s", "i", "a", "n", "a">>,
        <<"L", "A">> >>,
      << <<"m", "a", "i", "n", "e">>,
        <<"M", "E">> >>,
      << <<"m", "a", "r", "y", "l", "a", "n", "d">>,
        <<"M", "D">> >>,
      << <<"m", "a", "s", "s", "a", "c", "h", "u", "s", "e", "t", "t", "s">>,
        <<"M", "A">> >>,
      << <<"m", "i", "c", "h", "i", "g", "a", "n">>,
        <<"M", "I">> >>,
      << <<"m", "i", "n", "n", "e", "s", "o", "t", "a">>,
        <<"M", "N">> >>,
      << <<"m", "i", "s", "s", "i", "s", "s", "i", "p", "p", "i">>,
        <<"M", "S">> >>,
      << <<"m", "i", "s", "s", "o", "u", "r", "i">>,
        <<"M", "O">> >>,
      << <<"m", "o", "n", "t", "a", "n", "a">>,
        <<"M", "T">> >>,
      << <<"n", "e", "b", "r", "a", "s", "k", "a">>,
        <<"N", "E">> >>,
      << <<"n", "e", "v", "a", "d", "a">>,
        <<"N", "V">> >>,
      << <<"n", "e", "w", " ", "h", "a", "m", "p", "s", "h", "i", "r", "e">>,
        <<"N", "H">> >>,
      << <<"n", "e", "w", " ", "j", "e", "r", "s", "e", "y">>,
        <<"N", "J">> >>,
      << <<"n", "e", "w", " ", "m", "e", "x", "i", "c", "o">>,
        <<"N", "M">> >>,
      << <<"n", "e", "w", " ", "y", "o", "r", "k">>,
        <<"N", "Y">> >>,
      << <<"n", "o", "r", "t", "h", " ", "c", "a", "r", "o", "l", "i", "n", "a">>,
        <<"N", "C">> >>,
      << <<"n", "o", "r", "t", "h", " ", "d", "a", "k", "o", "t", "a">>,
        <<"N", "D">> >>,
      << <<"o", "h", "i", "o">>,
        <<"O", "H">> >>,
      << <<"o", "k", "l", "a", "h", "o", "m", "a">>,
        <<"O", "K">> >>,
      << <<"o", "r", "e", "g", "o", "n">>,
        <<"O", "R">> >>,
      << <<"p", "e", "n", "n", "s", "y", "l", "v", "a", "n", "i", "a">>,
        <<"P", "A">> >>,
      << <<"r", "h", "o", "d", "e", " ", "i", "s", "l", "a", "n", "d">>,
        <<"R", "I">> >>,
      << <<"s", "o", "u", "t", "h", " ", "c", "a", "r", "o", "l", "i", "n", "a">>,
        <<"S", "C">> >>,
      << <<"s", "o", "u", "t", "h", " ", "d", "a", "k", "o", "t", "a">>,
        <<"S", "D">> >>,
      << <<"t", "e", "n", "n", "e", "s", "s", "e", "e">>,
        <<"T", "N">> >>,
      << <<"t", "e", "x", "a", "s">>,
        <<"T", "X">> >>,
      << <<"u", "t", "a", "h">>,
        <<"U", "T">> >>,
      << <<"v", "e", "r", "m", "o", "n", "t">>,
        <<"V", "T">> >>,
      << <<"v", "i", "r", "g", "i", "n", "i", "a">>,
        <<"V", "A">> >>,
      << <<"w", "a", "s", "h", "i", "n", "g", "t", "o", "n">>,
        <<"W", "A">> >>,
      << <<"w", "e", "s", "t", " ", "v", "i", "r", "g", "i", "n", "i", "a">>,
        <<"W", "V">> >>,
      << <<"w", "i", "s", "c", "o", "n", "s", "i", "n">>,
        <<"W", "I">> >>,
      << <<"w", "y", "o", "m", "i", "n", "g">>,
        <<"W", "Y">> >>,
      << <<"d", "i", "s", "t", "r", "i", "c", "t", " ", "o", "f", " ", "c", "o", "l", "u", "m", "b", "i", "a">>,
        <<"D", "C">> >>
    >>

\* BizQuest's table has the same 51 entries under another name
_STATE_ABBREV == _US_STATE_ABBREV

\* dict.get(key): the abbreviation of a table name, None when key is no name
StateGet(table, key) ==
    IF \E k \in 1..Len(table) : table[k][1] = key
    THEN table[CHOOSE k \in 1..Len(table) : table[k][1] = key][2]
    ELSE None

\* the character at position i (1-based), "" beyond either end of the text
At(s, i) == IF i \in 1..Len(s) THEN s[i] ELSE ""

\* [A-Za-z\s\.\-'] : a character of the city group
IsCityChar(c) == IsLetter(c) \/ IsSpace(c) \/ c \in {".", "-", "'"}

\* last position of the run of city characters that starts at i
RECURSIVE CityRunEnd(_, _)
CityRunEnd(s, i) == IF IsCityChar(At(s, i + 1)) THEN CityRunEnd(s, i + 1) ELSE i

\* last position of the run of letters that starts at i
RECURSIVE LettersEnd(_, _)
LettersEnd(s, i) == IF IsLetter(At(s, i + 1)) THEN LettersEnd(s, i + 1) ELSE i

\* [A-Za-z]+(?:\s+[A-Za-z]+)* from the letter at j: last position of the
\* greedy match (what follows the group in every pattern is a space, a digit,
\* a comma or the end, so no shorter match of the group can succeed)
RECURSIVE StateWordsEnd(_, _)
StateWordsEnd(s, j) ==
    LET w == LettersEnd(s, j)
        n == SpacesFrom(s, w + 1)
    IN  IF n >= 1 /\ IsLetter(At(s, w + 1 + n))
        THEN StateWordsEnd(s, w + 1 + n)
        ELSE w

\* \d{n} at position d
DigitsAt(s, d, n) == \A k \in 0..(n - 1) : IsDigit(At(s, d + k))

\* \d{5}(?:-\d{4})? at position d: the last position matched, 0 for no match
ZipEnd(s, d) ==
    IF ~DigitsAt(s, d, 5)
    THEN 0
    ELSE IF At(s, d + 5) = "-" /\ DigitsAt(s, d + 6, 4) THEN d + 9 ELSE d + 4

\* the literal word at position d
LiteralAt(s, d, word) == \A k \in 1..Len(word) : At(s, d + k - 1) = word[k]

UnitedStates == <<"U", "n", "i", "t", "e", "d", " ", "S", "t", "a", "t", "e", "s">>

\* a regex match object: span and the two groups; start = 0 stands for no match
Match(start, end, city, state) ==
    [start |-> start, end |-> end, city |-> city, state |-> state]

NoMatch == Match(0, 0, <<>>, <<>>)

\* ([A-Za-z][A-Za-z\s\.\-']+?),\s*([A-Za-z]+(?:\s+[A-Za-z]+)*)\s+\d{5}(?:-\d{4})?
\* tried at position i.  The city group runs over city characters up to the
\* first other character, which has to be the comma.
_RE_CITY_STATE_BEFORE_ZIP(s, i) ==
    LET e == CityRunEnd(s, i)
        j == e + 2 + SpacesFrom(s, e + 2)
        w == StateWordsEnd(s, j)
        n == SpacesFrom(s, w + 1)
        z == ZipEnd(s, w + 1 + n)
    IN  IF /\ IsLetter(At(s, i))
           /\ e > i
           /\ At(s, e + 1) = ","
           /\ IsLetter(At(s, j))
           /\ n >= 1
           /\ z > 0
        THEN Match(i, z, SubSeq(s, i, e), SubSeq(s, j, w))
        ELSE NoMatch

\* BusinessBroker and Crexi: the same pattern with the zip as a third group
_RE_CITY_STATE_ZIP(s, i) == _RE_CITY_STATE_BEFORE_ZIP(s, i)

\* (?:\s+\d{5}(?:-\d{4})?|\s+United States|\s|$) at position t, or
\* (?:\s+\d{5}|\s|$) when ~long: the last position matched (t - 1 for the
\* empty alternative $), 0 when no alternative matches
CityStTail(s, t, long) ==
    LET n == SpacesFrom(s, t)
        d == t + n
    IN  IF n >= 1 /\ DigitsAt(s, d, 5)
        THEN IF long THEN ZipEnd(s, d) ELSE d + 4
        ELSE IF long /\ n >= 1 /\ LiteralAt(s, d, UnitedStates)
             THEN d + Len(UnitedStates) - 1
             ELSE IF IsSpace(At(s, t))
                  THEN t
                  ELSE IF t = Len(s) + 1 THEN t - 1 ELSE 0

\* ([A-Za-z][A-Za-z\s\.\-']+),\s*([A-Za-z]{2}) followed by the tail
CityStAt(s, i, long) ==
    LET e == CityRunEnd(s, i)
        j == e + 2 + SpacesFrom(s, e + 2)
        end == CityStTail(s, j + 2, long)
    IN  IF /\ IsLetter(At(s, i))
           /\ e > i
           /\ At(s, e + 1) = ","
           /\ IsLetter(At(s, j))
           /\ IsLetter(At(s, j + 1))
           /\ end > 0
        THEN Match(i, end, SubSeq(s, i, e), SubSeq(s, j, j + 1))
        ELSE NoMatch

\* _RE_CITY_ST of bizquest_scraper.py and of ibba_scraper.py
BizQuest_RE_CITY_ST(s, i) == CityStAt(s, i, TRUE)

Ibba_RE_CITY_ST(s, i) == CityStAt(s, i, TRUE)

\* _RE_CITY_ST of businessbroker_scraper.py and of crexi_scraper.py
BusinessBroker_RE_CITY_ST(s, i) == CityStAt(s, i, FALSE)

Crexi_RE_CITY_ST(s, i) == CityStAt(s, i, FALSE)

\* ([A-Za-z][A-Za-z\s\.\-']+),\s*([A-Za-z]{2})\b : the inline last-resort pattern
LooseCitySt(s, i) ==
    LET e == CityRunEnd(s, i)
        j == e + 2 + SpacesFrom(s, e + 2)
    IN  IF /\ IsLetter(At(s, i))
           /\ e > i
           /\ At(s, e + 1) = ","
           /\ IsLetter(At(s, j))
           /\ IsLetter(At(s, j + 1))
           /\ ~IsWordChar(At(s, j + 2))
        THEN Match(i, j + 1, SubSeq(s, i, e), SubSeq(s, j, j + 1))
        ELSE NoMatch

\* \s*([A-Za-z]+(?:\s+[A-Za-z]+)*)\s*(?=\d{5}(?:-\d{4})?|$|,) at position k
FullStateRest(s, k) ==
    LET p == k + SpacesFrom(s, k)
        w == StateWordsEnd(s, p)
        q == w + 1 + SpacesFrom(s, w + 1)
    IN  IF /\ IsLetter(At(s, p))
           /\ (DigitsAt(s, q, 5) \/ q = Len(s) + 1 \/ At(s, q) = ",")
        THEN Match(p, q - 1, <<>>, SubSeq(s, p, w))
        ELSE NoMatch

\* last position in i..e that holds no whitespace (s[i] is a letter)
RECURSIVE LastNonSpace(_, _, _)
LastNonSpace(s, i, e) ==
    IF e > i /\ IsSpace(s[e]) THEN LastNonSpace(s, i, e - 1) ELSE e

\* ([A-Za-z][A-Za-z\s\.\-']+?),?\s*,\s*([A-Za-z]+(?:\s+[A-Za-z]+)*)\s*(?=...)
\* The lazy city stops as soon as only whitespace lies before the comma; when
\* the state cannot follow that comma, ",?" takes it and a second comma is
\* looked for.
_RE_CITY_FULL_STATE(s, i) ==
    LET e == CityRunEnd(s, i)
        c == e + 1
        t == LastNonSpace(s, i, e)
        j0 == IF t > i THEN t ELSE i + 1
        r1 == FullStateRest(s, c + 1)
        c2 == c + 1 + SpacesFrom(s, c + 1)
        r2 == FullStateRest(s, c2 + 1)
    IN  IF IsLetter(At(s, i)) /\ e > i /\ At(s, c) = ","
        THEN IF r1.start > 0
             THEN Match(i, r1.end, SubSeq(s, i, j0), r1.state)
             ELSE IF At(s, c2) = "," /\ r2.start > 0
                  THEN Match(i, r2.end, SubSeq(s, i, e), r2.state)
                  ELSE NoMatch
        ELSE NoMatch

\* the match of a pattern at position i
MatchAt(pattern, s, i) ==
    CASE pattern = "_RE_CITY_STATE_BEFORE_ZIP" -> _RE_CITY_STATE_BEFORE_ZIP(s, i)
      [] pattern = "_RE_CITY_STATE_ZIP" -> _RE_CITY_STATE_ZIP(s, i)
      [] pattern = "bizquest._RE_CITY_ST" -> BizQuest_RE_CITY_ST(s, i)
      [] pattern = "ibba._RE_CITY_ST" -> Ibba_RE_CITY_ST(s, i)
      [] pattern = "businessbroker._RE_CITY_ST" -> BusinessBroker_RE_CITY_ST(s, i)
      [] pattern = "crexi._RE_CITY_ST" -> Crexi_RE_CITY_ST(s, i)
      [] pattern = "_RE_CITY_FULL_STATE" -> _RE_CITY_FULL_STATE(s, i)
      [] pattern = "loose" -> LooseCitySt(s, i)

\* pattern.finditer(s): the non-overlapping matches, leftmost first, each
\* search resuming after the previous match
RECURSIVE FindIter(_, _, _)
\* m is what the pattern gives at position i
FindIterFrom(pattern, s, i, m) ==
    IF m.start > 0
    THEN <<m>> \o FindIter(pattern, s, m.end + 1)
    ELSE FindIter(pattern, s, i + 1)

FindIter(pattern, s, i) ==
    IF i > Len(s) THEN <<>> ELSE FindIterFrom(pattern, s, i, MatchAt(pattern, s, i))

finditer(pattern, s) == FindIter(pattern, s, 1)

(***************************************************************************)
(* Location parsing: the four site parsers                                 *)
(***************************************************************************)
CommaSpace == <<",", " ">>

\* re.match(r"^\d+$", city)
AllDigits(city) == city # <<>> /\ \A k \in 1..Len(city) : IsDigit(city[k])

\* str.isalpha() for the characters of the model
IsAlpha(s) == s # <<>> /\ \A k \in 1..Len(s) : IsLetter(s[k])

\* str.isupper(): some cased character and no lowercase one
IsUpperStr(s) ==
    /\ \E k \in 1..Len(s) : IsLetter(s[k])
    /\ \A k \in 1..Len(s) : ~IsLower(s[k])

\* text.replace(NBSP, " "), no NBSP among the characters of the model;
\* text = " ".join(text.split())
NormalizeSpaces(text) == JoinWords(Split(text))

\* the first value of a loop over matches that returns (None = the loop
\* body fell through to the next match)
FirstReturn(outs) ==
    IF \E k \in 1..Len(outs) : outs[k] # None
    THEN outs[CHOOSE k \in 1..Len(outs) :
                  outs[k] # None /\ \A h \in 1..(k - 1) : outs[h] = None]
    ELSE None

\* f"{city}, {state}" when _CITY_STATE_ONLY accepts it
CityStateOut(city, state) ==
    LET out == city \o CommaSpace \o state
    IN  IF _CITY_STATE_ONLY(out) THEN out ELSE None

\* the first non-None value of a sequence of loop results, "N/A" at the end
FirstOrNA(results) ==
    IF FirstReturn(results) # None THEN FirstReturn(results) ELSE NA

\* --- bizquest_scraper.py ---

\* body of the loops over _RE_CITY_STATE_BEFORE_ZIP and _RE_CITY_FULL_STATE
BizQuestNamedStateBody(match) ==
    LET city == Strip(match.city)
        state_raw == Strip(match.state)
        state_abbrev == StateGet(_STATE_ABBREV, StrLower(state_raw))
    IN  IF city = <<>> \/ Len(city) > 50 \/ AllDigits(city)
        THEN None
        ELSE IF state_abbrev # None THEN CityStateOut(city, state_abbrev) ELSE None

\* body of the loops over _RE_CITY_ST and over the inline pattern: the state
\* is written as matched
BizQuestCityStBody(match) ==
    LET city == Strip(match.city)
        state == Strip(match.state)
    IN  IF Len(state) # 2 \/ city = <<>> \/ Len(city) > 50 \/ AllDigits(city)
        THEN None
        ELSE CityStateOut(city, state)

\* "for match in <pattern>.finditer(text)" over the matches ms
BizQuestLoop(pattern, ms) ==
    FirstReturn([k \in 1..Len(ms) |->
        IF pattern \in {"_RE_CITY_STATE_BEFORE_ZIP", "_RE_CITY_FULL_STATE"}
        THEN BizQuestNamedStateBody(ms[k])
        ELSE BizQuestCityStBody(ms[k])])

\* the patterns of the four loops of parse_city_state, in order
BizQuestPatterns ==
    <<"_RE_CITY_STATE_BEFORE_ZIP", "bizquest._RE_CITY_ST", "_RE_CITY_FULL_STATE",
      "loose">>

\* the loops of parse_city_state over the normalised text
BizQuestLoops(text) ==
    FirstOrNA([p \in 1..Len(BizQuestPatterns) |->
        BizQuestLoop(BizQuestPatterns[p], finditer(BizQuestPatterns[p], text))])

parse_city_state(raw) ==
    IF raw = <<>> \/ Len(raw) > 2000
    THEN NA
    ELSE BizQuestLoops(NormalizeSpaces(raw))

\* the text parse_city_state scans for its argument
BizQuestScanned(raw) ==
    IF raw = <<>> \/ Len(raw) > 2000 THEN <<>> ELSE NormalizeSpaces(raw)

\* texts[k] was scanned and gave locs[k]: the first location other than "N/A"
\* with its text, else "N/A" with the last text scanned
FirstLocation(texts, locs) ==
    IF \E k \in 1..Len(locs) : locs[k] # NA
    THEN LET k == CHOOSE k \in 1..Len(locs) :
                      locs[k] # NA /\ \A h \in 1..(k - 1) : locs[h] = NA
         IN  <<texts[k], locs[k]>>
    ELSE IF texts = <<>> THEN <<(<<>>), NA>> ELSE <<texts[Len(texts)], NA>>

\* the texts _extract_location_from_profile hands to parse_city_state: the
\* non-empty blocks of the label loop, stripped, then the body when it is read
BizQuestTexts(blocks, body_text, body_read) ==
    [k \in 1..Len(blocks) |-> Strip(blocks[k])]
        \o (IF body_read THEN <<Prefix(body_text, 50000)>> ELSE <<>>)

\* the pair <<text scanned, location returned>>
BizQuestLocations(texts) ==
    FirstLocation([k \in 1..Len(texts) |-> BizQuestScanned(texts[k])],
                  [k \in 1..Len(texts) |-> parse_city_state(texts[k])])

BizQuest_extract_location_from_profile(blocks, body_text, body_read) ==
    BizQuestLocations(BizQuestTexts(blocks, body_text, body_read))

\* --- businessbroker_scraper.py ---
_normalize_state(state_raw) ==
    LET s == Strip(state_raw)
    IN  IF Len(s) = 2 /\ IsAlpha(s)
        THEN StrUpper(s)
        ELSE StateGet(_US_STATE_ABBREV, StrLower(s))

\* city.title() if city.isupper() else city
city_title(city) == IF IsUpperStr(city) THEN TitleCase(city) ELSE city

\* body of the loop over _RE_CITY_STATE_ZIP; digit_check is the
\* re.match(r"^\d+$", city) test that only businessbroker_scraper.py has
ZipBody(match, digit_check) ==
    LET city == Strip(match.city)
        state_raw == Strip(match.state)
        state_abbrev == _normalize_state(state_raw)
    IN  IF city = <<>> \/ Len(city) > 50 \/ (digit_check /\ AllDigits(city))
        THEN None
        ELSE IF state_abbrev # None
             THEN CityStateOut(city_title(city), state_abbrev)
             ELSE None

\* body of the loop over _RE_CITY_ST
CityStBody(match, digit_check) ==
    LET city == Strip(match.city)
        state == StrUpper(Strip(match.state))
    IN  IF city = <<>> \/ Len(city) > 50 \/ (digit_check /\ AllDigits(city))
        THEN None
        ELSE CityStateOut(city_title(city), state)

\* "for match in _RE_CITY_STATE_ZIP.finditer(text)" over the matches ms
ZipLoop(ms, digit_check) ==
    FirstReturn([k \in 1..Len(ms) |-> ZipBody(ms[k], digit_check)])

\* "for match in _RE_CITY_ST.finditer(text)" over the matches ms
CityStLoop(ms, digit_check) ==
    FirstReturn([k \in 1..Len(ms) |-> CityStBody(ms[k], digit_check)])

BusinessBrokerLoops(text) ==
    FirstOrNA(<<ZipLoop(finditer("_RE_CITY_STATE_ZIP", text), TRUE),
                CityStLoop(finditer("businessbroker._RE_CITY_ST", text), TRUE)>>)

BusinessBroker_extract_location(body_text) ==
    BusinessBrokerLoops(NormalizeSpaces(Prefix(body_text, 10000)))

\* --- ibba_scraper.py ---
_normalize_state_to_abbrev(state_raw) ==
    LET s == Strip(state_raw)
    IN  IF Len(s) = 2 /\ IsAlpha(s)
        THEN StrUpper(s)
        ELSE StateGet(_US_STATE_ABBREV, StrLower(s))

\* cutoff = int(len(text) * 0.75)
Cutoff(text) == (3 * Len(text)) \div 4

\* "if match.start() > cutoff: break": match starts increase along finditer,
\* so the loop sees exactly the matches that start (0-based) at or before cutoff
BeforeCutoff(ms, cutoff) == SelectSeq(ms, LAMBDA m : m.start - 1 <= cutoff)

IbbaZipBody(match) ==
    LET city == Strip(match.city)
        state_raw == Strip(match.state)
        state_abbrev == _normalize_state_to_abbrev(state_raw)
    IN  IF city = <<>> \/ Len(city) > 50 \/ AllDigits(city)
        THEN None
        ELSE IF state_abbrev # None THEN CityStateOut(city, state_abbrev) ELSE None

IbbaCityStBody(match) ==
    LET city == Strip(match.city)
        state == Strip(match.state)
    IN  IF Len(state) # 2 \/ city = <<>> \/ Len(city) > 50 \/ AllDigits(city)
        THEN None
        ELSE CityStateOut(city, StrUpper(state))

IbbaZipLoop(ms) == FirstReturn([k \in 1..Len(ms) |-> IbbaZipBody(ms[k])])

IbbaCityStLoop(ms) == FirstReturn([k \in 1..Len(ms) |-> IbbaCityStBody(ms[k])])

IbbaLoops(text, cutoff) ==
    FirstOrNA(<<IbbaZipLoop(BeforeCutoff(
                    finditer("_RE_CITY_STATE_BEFORE_ZIP", text), cutoff)),
                IbbaCityStLoop(BeforeCutoff(
                    finditer("ibba._RE_CITY_ST", text), cutoff)),
                IbbaCityStLoop(finditer("loose", Prefix(text, cutoff)))>>)

IbbaScan(text) == IbbaLoops(text, Cutoff(text))

Ibba_extract_location_from_profile(body_text) ==
    IbbaScan(NormalizeSpaces(Prefix(body_text, 50000)))

\* --- crexi_scraper.py ---
\* the two loops every text source of _extract_location goes through
CrexiLoops(text) ==
    FirstOrNA(<<ZipLoop(finditer("_RE_CITY_STATE_ZIP", text), FALSE),
                CityStLoop(finditer("crexi._RE_CITY_ST", text), FALSE)>>)

\* the texts _extract_location scans: pin parent, pin sibling and location
\* element (the non-empty ones are the blocks), stripped, then the body when
\* it is read
CrexiTexts(blocks, body_text, body_read) ==
    [k \in 1..Len(blocks) |-> Strip(blocks[k])]
        \o (IF body_read
            THEN <<NormalizeSpaces(Prefix(body_text, 10000))>>
            ELSE <<>>)

\* the pair <<text scanned, location returned>>
CrexiLocations(texts) ==
    FirstLocation(texts, [k \in 1..Len(texts) |-> CrexiLoops(texts[k])])

Crexi_extract_location(blocks, body_text, body_read) ==
    CrexiLocations(CrexiTexts(blocks, body_text, body_read))

(***************************************************************************)
(* The location extractors applied to a profile page                       *)
(***************************************************************************)
MaxLocFragments == 3

\* pieces of page text; a body text is a concatenation of at most
\* MaxLocFragments of them
LocFragments ==
    {
      <<"1", "2", "3", " ", "M", "a", "i", "n", " ", "S", "t", ",", " ">>,
      <<"O", "r", "l", "a", "n", "d", "o", ",", " ">>,
      <<"E", "l", " ", "P", "a", "s", "o", ",", " ">>,
      <<"O", "R", "L", "A", "N", "D", "O", ",", " ">>,
      <<"F", "L", " ", "3", "2", "8", "0", "1">>,
      <<"F", "L">>,
      <<"f", "l">>,
      <<"F", "l", "o", "r", "i", "d", "a">>
    }

RECURSIVE LocTextsUpTo(_)
LocTextsUpTo(n) ==
    IF n = 0
    THEN {<<>>}
    ELSE LET shorter == LocTextsUpTo(n - 1)
         IN  shorter \cup {t \o f : t \in shorter, f \in LocFragments}

LocTexts == LocTextsUpTo(MaxLocFragments)

\* the non-empty texts of the labelled / pinned elements of a page, in the
\* order the extractor reads them
LocBlockLists ==
    { <<>>,
      <<<<"C", "a", "l", "l", " ", "u", "s">>>>,
      <<<<"C", "a", "l", "l", " ", "u", "s">>,
        <<"T", "a", "m", "p", "a", ",", " ", " ", "F", "L">>>> }

LocationInit ==
    /\ ExportStart
    /\ KwIdle
    /\ locBody \in LocTexts
    /\ locParsed = <<>>
    /\ locSite = "none"
    /\ locResult = <<>>
    /\ OthersIdle

\* the extractor returns: r is the pair <<text scanned, location>>
ReturnLocation(r) ==
    /\ locParsed' = r[1]
    /\ locResult' = r[2]

\* location = _extract_location_from_profile(page) of bizquest_scraper.py
BizQuestLocation ==
    /\ locSite = "none"
    /\ \E blocks \in LocBlockLists, body_read \in BOOLEAN :
         ReturnLocation(
             BizQuest_extract_location_from_profile(blocks, locBody, body_read))
    /\ locSite' = "bizquest"
    /\ UNCHANGED <<locBody, exportVars, kwVars, otherVars>>

\* location = _extract_location(page) of businessbroker_scraper.py
BusinessBrokerLocation ==
    /\ locSite = "none"
    /\ \E body_read \in BOOLEAN :
         /\ locParsed' = IF body_read
                         THEN NormalizeSpaces(Prefix(locBody, 10000))
                         ELSE <<>>
         /\ locResult' = IF body_read
                         THEN BusinessBroker_extract_location(locBody)
                         ELSE NA
    /\ locSite' = "businessbroker"
    /\ UNCHANGED <<locBody, exportVars, kwVars, otherVars>>

\* location = _extract_location_from_profile(page) of ibba_scraper.py
IbbaLocation ==
    /\ locSite = "none"
    /\ \E body_read \in BOOLEAN :
         /\ locParsed' = IF body_read
                         THEN NormalizeSpaces(Prefix(locBody, 50000))
                         ELSE <<>>
         /\ locResult' = IF body_read
                         THEN Ibba_extract_location_from_profile(locBody)
                         ELSE NA
    /\ locSite' = "ibba"
    /\ UNCHANGED <<locBody, exportVars, kwVars, otherVars>>

\* location = _extract_location(page) of crexi_scraper.py
CrexiLocation ==
    /\ locSite = "none"
    /\ \E blocks \in LocBlockLists, body_read \in BOOLEAN :
         ReturnLocation(Crexi_extract_location(blocks, locBody, body_read))
    /\ locSite' = "crexi"
    /\ UNCHANGED <<locBody, exportVars, kwVars, otherVars>>

LocationNext ==
    \/ BizQuestLocation
    \/ BusinessBrokerLocation
    \/ IbbaLocation
    \/ CrexiLocation

\* the location extractors of the four site scripts
SpecLocation == LocationInit /\ [][LocationNext]_vars

(***************************************************************************)
(* Claims about the location parsers                                       *)
(***************************************************************************)
\* a location extractor has returned
LocDone == locSite # "none"

\* "<city>, <ST>": a non-empty city of at most 50 characters that is not all
\* digits, a comma, a space and two uppercase letters
WellFormedLocation(loc) ==
    LET c == FirstComma(loc)
        city == SubSeq(loc, 1, c - 1)
    IN  /\ c > 1
        /\ Len(city) <= 50
        /\ ~AllDigits(city)
        /\ Len(loc) = c + 3
        /\ loc[c + 1] = " "
        /\ IsUpper(loc[c + 2])
        /\ IsUpper(loc[c + 3])

\* C7: every location a site's parser returns is "N/A" or "<city>, <ST>" with
\* a non-empty city of at most 50 characters, not made only of digits, and a
\* state of exactly two uppercase letters
C7_LocationShape ==
    LocDone => (locResult = NA \/ WellFormedLocation(locResult))

\* the 51 abbreviations of the state table
TableAbbreviations == {_US_STATE_ABBREV[k][2] : k \in 1..Len(_US_STATE_ABBREV)}

\* the state part of a returned location: its last two characters
StateOf(loc) == SubSeq(loc, Len(loc) - 1, Len(loc))

\* C8: whenever a location parser returns a value other than "N/A", the state
\* part of the result is one of the 51 abbreviations of the state table
C8_StateInTable ==
    (LocDone /\ locResult # NA) =>
        (Len(locResult) >= 2 /\ StateOf(locResult) \in TableAbbreviations)

\* the values a loop would return for the matches of a pattern, in text order
Accepted(outs) == SelectSeq(outs, LAMBDA out : out # None)

\* accepted matches of the city-state-zip family of a site
ZipFamily(site, text) ==
    LET ms == finditer("_RE_CITY_STATE_ZIP", text)
    IN  Accepted([k \in 1..Len(ms) |->
            CASE site = "bizquest" -> BizQuestNamedStateBody(ms[k])
              [] site = "businessbroker" -> ZipBody(ms[k], TRUE)
              [] site = "ibba" -> IbbaZipBody(ms[k])
              [] site = "crexi" -> ZipBody(ms[k], FALSE)])

\* accepted matches of the city-state-abbreviation family of a site
AbbrevFamily(site, text) ==
    LET ms == finditer(site \o "._RE_CITY_ST", text)
    IN  Accepted([k \in 1..Len(ms) |->
            CASE site = "bizquest" -> BizQuestCityStBody(ms[k])
              [] site = "businessbroker" -> CityStBody(ms[k], TRUE)
              [] site = "ibba" -> IbbaCityStBody(ms[k])
              [] site = "crexi" -> CityStBody(ms[k], FALSE)])

\* accepted matches of the full-state-name family
FullNameFamily(text) ==
    LET ms == finditer("_RE_CITY_FULL_STATE", text)
    IN  Accepted([k \in 1..Len(ms) |-> BizQuestNamedStateBody(ms[k])])

\* C9: the result is the leftmost accepted match of the first of the families
\* city-state-zip, city-state-abbreviation, full state name that has an
\* accepted match, and "N/A" is returned only when no family has one
C9_FamilyPriority ==
    (LocDone /\ locParsed # <<>>) =>
        LET zip == ZipFamily(locSite, locParsed)
            abbrev == AbbrevFamily(locSite, locParsed)
            full == FullNameFamily(locParsed)
        IN  /\ zip # <<>> => locResult = zip[1]
            /\ (zip = <<>> /\ abbrev # <<>>) => locResult = abbrev[1]
            /\ (zip = <<>> /\ abbrev = <<>> /\ full # <<>>) => locResult = full[1]
            /\ locResult = NA => (zip = <<>> /\ abbrev = <<>> /\ full = <<>>)

\* "<number> <street>, <City>, <ST> <zip>" for the cities of the page texts
AddressCities == { <<"O", "r", "l", "a", "n", "d", "o">>,
                   <<"E", "l", " ", "P", "a", "s", "o">> }

StreetAddress(city) ==
    <<"1", "2", "3", " ", "M", "a", "i", "n", " ", "S", "t", ",", " ">>
        \o city \o CommaSpace \o <<"F", "L", " ", "3", "2", "8", "0", "1">>

\* C10: a street address "<number> <street>, <City>, <ST> <zip>" with a valid
\* state abbreviation yields "<City>, <ST>" in every site's parser
C10_StreetAddress ==
    LocDone =>
        \A city \in AddressCities :
            locParsed = StreetAddress(city) =>
                locResult = city \o CommaSpace \o <<"F", "L">>

(***************************************************************************)
(* The BizQuest directory crawl                                            *)
(***************************************************************************)
max_pages == 60

\* an href of a listing page: a broker profile or another page of the directory
BrokerLink(n) == [path |-> "profile", n |-> n]

DirectoryLink == [path |-> "directory", n |-> 0]

\* _PROFILE_PATH_RE.search(full): /business-broker/<state>/<name>/BW<digits>
_PROFILE_PATH_RE(url) == url.path = "profile"

\* the address of listing page n under the directory's base address
_directory_page_url(n) ==
    IF n <= 1 THEN <<"base">> ELSE <<"base", "page", n>>

\* the hrefs listing page n may show: its own broker, the broker of the page
\* before (a repeat) and a link that is no profile
PageHrefs(n) == {BrokerLink(n), BrokerLink(n - 1), DirectoryLink}

\* the set of profile URLs among the hrefs read; empty when links.count()
\* raises (an href that cannot be read is one the page does not show)
_get_profile_urls_from_page(hrefs, count_ok) ==
    IF count_ok THEN {h \in hrefs : _PROFILE_PATH_RE(h)} ELSE {}

\* "if added == 0: break" without the test
NeverBreak(added) == FALSE

\* "if added == 0: break"
BreakOnNoNewUrl(added) == added = 0

CrawlStart ==
    /\ page_num = 1
    /\ all_urls = {}
    /\ fetched = <<>>
    /\ found_urls = {}
    /\ crawl_pc = "crawling"

CrawlInit == ExportStart /\ KwIdle /\ LocIdle /\ CrawlStart /\ CxIdle /\ RunIdle
               /\ IbIdle /\ PhIdle

\* one iteration of "for page_num in range(1, max_pages + 1)": page.goto, the
\* links of the page, the break tests; the loop ends after page max_pages
FetchDirectoryPage ==
    /\ crawl_pc = "crawling"
    /\ page_num <= max_pages
    /\ \E goto_ok \in BOOLEAN, count_ok \in BOOLEAN, hrefs \in SUBSET PageHrefs(page_num) :
         LET urls == IF goto_ok
                     THEN _get_profile_urls_from_page(hrefs, count_ok)
                     ELSE {}
             added == Cardinality(all_urls \cup urls) - Cardinality(all_urls)
         IN  /\ all_urls' = all_urls \cup urls
             /\ fetched' = Append(fetched,
                    [num |-> page_num, url |-> _directory_page_url(page_num),
                     failed |-> ~goto_ok, added |-> added])
             /\ found_urls' = found_urls \cup urls
             /\ IF ~goto_ok \/ BreakOnNoNewUrl(added) \/ page_num = max_pages
                THEN crawl_pc' = "returned" /\ page_num' = page_num
                ELSE crawl_pc' = crawl_pc /\ page_num' = page_num + 1
    /\ UNCHANGED <<exportVars, kwVars, locVars, cxVars, runVars, ibbaVars>>

CrawlNext == FetchDirectoryPage

\* _get_all_profile_urls_from_directory of bizquest_scraper.py
SpecCrawl == CrawlInit /\ [][CrawlNext]_vars

\* C11: the BizQuest crawl fetches pages 1, 2, 3, ... in order, at most 60 of
\* them, fetches no page after the first one that adds no new profile URL,
\* and what it holds (and returns) is the union of the links of the pages
\* it fetched
C11_CrawlOrderAndStop ==
    /\ Len(fetched) <= 60
    /\ \A k \in 1..Len(fetched) : fetched[k].num = k
    /\ \A k \in 1..(Len(fetched) - 1) : fetched[k].added > 0
    /\ all_urls = found_urls
    /\ crawl_pc = "returned" =>
           (fetched[Len(fetched)].added = 0 \/ Len(fetched) = 60)
    /\ crawl_pc = "crawling" =>
           (page_num = Len(fetched) + 1 /\ \A k \in 1..Len(fetched) : fetched[k].added > 0)

\* the crawl has returned after a page that loaded and showed only repeats
C11_Witness ==
    /\ crawl_pc = "returned"
    /\ Len(fetched) = 3
    /\ ~fetched[3].failed
    /\ fetched[3].added = 0
    /\ all_urls = {BrokerLink(1), BrokerLink(2)}

\* C13: a failure while fetching one listing page does not end the crawl: the
\* crawl returns after a failed page only when that page is the last one
C13_PageFailureSkipsOnlyPage ==
    (crawl_pc = "returned" /\ fetched[Len(fetched)].failed) =>
        Len(fetched) = max_pages

(***************************************************************************)
(* The Crexi crawl: _collect_all_profile_urls                              *)
(***************************************************************************)
max_failures == 2

\* largest start_page and max_pages argument of the model
MaxStartPage == 2

MaxCrexiPages == 3

\* the history counter fail_streak stops counting here
MaxStreak == 3

\* the profile URL first shown on listing page n
CrexiLink(n) == <<"profile", n>>

\* what _get_profile_urls_from_page may return on listing page n: nothing
\* (not loaded yet), the page's broker, or that one and a repeat
CrexiPageLinks(n) ==
    {<<>>, <<CrexiLink(n)>>, <<CrexiLink(n), CrexiLink(n - 1)>>}

\* "for u in profile_urls: if u not in seen: ... all_urls.append(u)"
RECURSIVE CollectNew(_, _)
CollectNew(urls, profile_urls) ==
    IF profile_urls = <<>>
    THEN urls
    ELSE CollectNew(
             IF \E k \in 1..Len(urls) : urls[k] = Head(profile_urls)
             THEN urls
             ELSE Append(urls, Head(profile_urls)),
             Tail(profile_urls))

\* the ways the attempt to reach the next page ends: _has_next_page is False,
\* _click_next_page is False, _click_next_page raises, or Next was clicked
AdvanceOutcomes == {"no_next", "click_failed", "click_raised", "clicked"}

\* no iteration yet
NoIteration == [page |-> 0, ops |-> <<>>, links |-> <<>>, urls_before |-> <<>>]

CxStart ==
    /\ start_page \in 1..MaxStartPage
    /\ \E m \in 1..MaxCrexiPages : end_page = start_page + m - 1
    /\ cx_page_num = 1
    /\ consecutive_failures = 0
    /\ cx_all_urls = <<>>
    /\ fail_streak = 0
    /\ cx_pc = "crawling"
    /\ cx_collected_at = {}
    /\ cx_last = NoIteration

CxInit == ExportStart /\ KwIdle /\ LocIdle /\ CrawlIdle /\ CxStart /\ RunIdle
            /\ IbIdle /\ PhIdle

\* a failed attempt: "consecutive_failures += 1; if consecutive_failures >=
\* max_failures: break; ...; continue"
CxFailure(failures) ==
    /\ consecutive_failures' = failures + 1
    /\ cx_pc' = IF failures + 1 >= max_failures THEN "returned" ELSE "crawling"
    /\ fail_streak' = IF fail_streak < MaxStreak THEN fail_streak + 1 ELSE fail_streak
    /\ cx_page_num' = cx_page_num

\* URLs are added on every page, also before start_page
CollectsOnEveryPage(profile_urls) == profile_urls # <<>>

\* "if page_num >= start_page: profile_urls = ...; if not profile_urls: ...
\* else: <add the new ones>"
Collects(profile_urls) == cx_page_num >= start_page /\ profile_urls # <<>>

\* the page operations of an iteration that got past the scrolling: the links
\* are read only from start_page on, the Next control is looked for and
\* clicked only before end_page
IterationOps(advance) ==
    <<"url", "scroll">>
        \o (IF cx_page_num >= start_page THEN <<"links">> ELSE <<>>)
        \o (IF cx_page_num >= end_page
            THEN <<>>
            ELSE IF advance = "no_next"
                 THEN <<"has_next">>
                 ELSE <<"has_next", "click_next">>)

\* one iteration of "while page_num <= end_page"
CxIteration ==
    /\ cx_pc = "crawling"
    /\ \E early_raise \in BOOLEAN, profile_urls \in CrexiPageLinks(cx_page_num),
          advance \in AdvanceOutcomes :
         IF cx_page_num > end_page
         THEN \* the loop condition fails: return all_urls
              /\ cx_pc' = "returned"
              /\ UNCHANGED <<cx_page_num, consecutive_failures, cx_all_urls,
                             fail_streak, cx_collected_at, cx_last>>
         ELSE IF early_raise
         THEN \* page.url or the scrolling raised
              /\ CxFailure(consecutive_failures)
              /\ cx_all_urls' = cx_all_urls
              /\ cx_collected_at' = cx_collected_at
              /\ cx_last' = [page |-> cx_page_num, ops |-> <<"url", "scroll">>,
                             links |-> <<>>, urls_before |-> cx_all_urls]
         ELSE LET collecting == Collects(profile_urls)
                  failures == IF collecting THEN 0 ELSE consecutive_failures
              IN  /\ cx_all_urls' = IF collecting
                                    THEN CollectNew(cx_all_urls, profile_urls)
                                    ELSE cx_all_urls
                  /\ cx_collected_at' = IF collecting
                                        THEN cx_collected_at \cup {cx_page_num}
                                        ELSE cx_collected_at
                  /\ cx_last' = [page |-> cx_page_num,
                                 ops |-> IterationOps(advance),
                                 links |-> IF cx_page_num >= start_page
                                           THEN profile_urls ELSE <<>>,
                                 urls_before |-> cx_all_urls]
                  /\ IF cx_page_num >= end_page
                     THEN /\ cx_pc' = "returned"
                          /\ consecutive_failures' = failures
                          /\ UNCHANGED <<cx_page_num, fail_streak>>
                     ELSE IF advance = "clicked"
                     THEN /\ consecutive_failures' = 0
                          /\ cx_page_num' = cx_page_num + 1
                          /\ fail_streak' = 0
                          /\ cx_pc' = cx_pc
                     ELSE CxFailure(failures)
    /\ UNCHANGED <<start_page, end_page, exportVars, kwVars, locVars, crawlVars,
                   runVars, ibbaVars>>

CxNext == CxIteration

\* _collect_all_profile_urls of crexi_scraper.py
SpecCrexiCrawl == CxInit /\ [][CxNext]_vars

\* C12: two consecutive failed attempts to advance end the Crexi crawl, so
\* there is never a third consecutive failed attempt on the same page
C12_RetryBudget ==
    /\ fail_streak <= 2
    /\ fail_streak = 2 => cx_pc = "returned"

(***************************************************************************)
(* A run of a site script: scrape_bizquest_directory,                      *)
(* scrape_businessbroker_directory, scrape_ibba_directory and              *)
(* scrape_crexi_directory (directory mode), with the region functions      *)
(* _scrape_directory_page, _scrape_state, _scrape_state_page and           *)
(* _scrape_directory / _scrape_single_profile                              *)
(***************************************************************************)
Sites == {"bizquest", "businessbroker", "ibba", "crexi"}

\* profile links listed per region (a bound of the model)
MaxProfiles == 2

\* DIRECTORY_URLS of bizquest_scraper.py and businessbroker_scraper.py,
\* STATE_DIRECTORY_URLS of ibba_scraper.py, and the two directories of
\* crexi_scraper.py (DIRECTORY_URL, NY_DIRECTORY_URL)
DIRECTORY_URLS ==
    IF run_site = "businessbroker"
    THEN <<"Florida", "New York">>
    ELSE IF run_site = "crexi"
         THEN <<"Florida", "New York">>
         ELSE <<"New York", "Florida">>

\* the region flags a script declares with add_argument
RegionFlags ==
    CASE run_site \in {"bizquest", "businessbroker"} -> {"ny", "fl"}
      [] run_site = "crexi" -> {"ny"}
      [] OTHER -> {}

\* the region a flag stands for
FlagRegion(flag) == IF flag = "ny" THEN "New York" ELSE "Florida"

\* "regions" as the __main__ block of bizquest_scraper.py and of
\* businessbroker_scraper.py computes it: None (here <<>>) unless exactly one
\* flag is given
regions ==
    IF args = {"ny"}
    THEN <<"New York">>
    ELSE IF args = {"fl"} THEN <<"Florida">> ELSE <<>>

NumRegions == Len(run_urls)

RegionNumber(name) == IF name = "New York" THEN 1 ELSE 2

\* the profiles a region lists: the two regions share a broker
RegionProfiles(r) == [i \in 1..MaxProfiles |-> r + i - 1]

Fields == {"full_name", "company", "location", "phone_number", "email"}

\* the sets of field extractions that fail on one profile
FieldFailures == { {}, {"phone_number", "email"} }

\* what the keyword matcher returns as keywords_found
KeywordResults == { <<>>, <<"car wash", "carwash">> }

\* what a profile page shows for a field
PageField(k, f) ==
    CASE f = "full_name" -> <<"J", "d">>
      [] f = "company" -> <<"A", "c">>
      [] f = "location" -> <<"M", "i", ",", " ", "F", "L">>
      [] f = "phone_number" -> <<"5", DigitChars[(k % 2) + 1]>>
      [] OTHER -> <<"e", "@", "x">>

\* an extractor returns the value of the page, or "N/A" when it fails
Extracted(k, f, failed) == IF f \in failed THEN NA ELSE PageField(k, f)

RECURSIVE JoinKeywords(_)
\* "; ".join(keywords_found), each keyword kept as one token
JoinKeywords(kws) ==
    IF kws = <<>>
    THEN <<>>
    ELSE IF Len(kws) = 1
         THEN <<kws[1]>>
         ELSE <<kws[1], ";", " ">> \o JoinKeywords(Tail(kws))

\* notes of a record; Crexi prefixes the keyword list with "keywords: "
Notes(kws) ==
    IF kws = <<>>
    THEN NA
    ELSE IF run_site = "crexi"
         THEN <<"keywords: ">> \o JoinKeywords(kws)
         ELSE JoinKeywords(kws)

\* the BrokerContact built for profile k
RunContact(k, failed, kws) ==
    BrokerContact(Extracted(k, "full_name", failed),
                  Extracted(k, "phone_number", failed),
                  Extracted(k, "location", failed),
                  Extracted(k, "company", failed),
                  Extracted(k, "email", failed),
                  ProfileUrl(k), Notes(kws))

\* df_one.astype(str).fillna("").values.tolist()[0]
RowValues(r) == [i \in 1..Len(CSV_COLUMNS) |-> r[CSV_COLUMNS[i]]]

\* a data row left in the worksheet by an earlier run
OldRow == [i \in 1..Len(CSV_COLUMNS) |-> <<"o", "l", "d">>]

\* OUTPUT_HEADERS of ibba_scraper.py renames the notes column
OutputColumns ==
    IF run_site = "ibba"
    THEN [i \in 1..Len(CSV_COLUMNS) |->
            IF CSV_COLUMNS[i] = "Notes (URL Link)"
            THEN "Notes (Keywords Found)"
            ELSE CSV_COLUMNS[i]]
    ELSE CSV_COLUMNS

\* the CSV file an earlier run of the script left behind
StaleCsv == [header |-> OutputColumns, rows |-> <<OldRow>>]

\* save_to_csv(df, path): header line and one line per row
save_to_csv(d) == [header |-> OutputColumns, rows |-> [i \in 1..Len(d) |-> RowValues(d[i])]]

NoVisit == [url |-> 0, loaded |-> FALSE, attempts |-> 0, keywords |-> <<>>,
            failed |-> {}, body_read |-> TRUE, records_before |-> 0,
            rows_before |-> 0]

NoSheetCall == [attempted |-> FALSE, failed |-> FALSE]

RunStart ==
    /\ run_site \in Sites
    /\ args \in SUBSET RegionFlags
    /\ regions_given = FALSE
    /\ sheet_cfg \in {"off", "on", "misconfigured"}
    /\ run_pc = "main"
    /\ run_error = "none"
    /\ region_idx = 0
    /\ profile_list = <<>>
    /\ region_contacts = <<>>
    /\ all_contacts = <<>>
    /\ seen_urls = {}
    /\ csv_file = StaleCsv
    /\ worksheet = <<OldRow>>
    /\ collected = <<>>
    /\ last_visit = NoVisit
    /\ interrupted = FALSE
    /\ run_urls = <<>>
    /\ scraped = {}
    /\ sheet_log = NoSheetCall
    /\ visited_urls = <<>>

RunInit == ExportStart /\ KwIdle /\ LocIdle /\ CrawlIdle /\ CxIdle /\ RunStart
             /\ IbIdle /\ PhIdle

\* the __main__ block and the first lines of the top-level function: the flags
\* are parsed and the regions to loop over are chosen.  Crexi scrapes the New
\* York directory with --ny and the Florida directory without; ibba_scraper.py
\* declares no flag
Main ==
    /\ run_pc = "main"
    /\ run_pc' = "start"
    /\ IF run_site = "crexi"
       THEN /\ regions_given' = ("ny" \in args)
            /\ run_urls' = IF "ny" \in args THEN <<"New York">> ELSE <<"Florida">>
       ELSE IF run_site = "ibba"
       THEN /\ regions_given' = FALSE
            /\ run_urls' = DIRECTORY_URLS
       ELSE /\ regions_given' = (regions # <<>>)
            /\ run_urls' = IF regions # <<>> THEN regions ELSE DIRECTORY_URLS
    /\ UNCHANGED <<run_site, sheet_cfg, run_error, region_idx, profile_list,
                   region_contacts, all_contacts, seen_urls, csv_file, worksheet,
                   collected, last_visit, interrupted, args, scraped, sheet_log,
                   visited_urls, exportVars, kwVars, locVars, crawlVars, cxVars,
                   ibbaVars>>

\* the region (or the save step) that follows region r
AfterRegion(r) ==
    IF r < NumRegions
    THEN /\ run_pc' = "opening"
         /\ region_idx' = r + 1
    ELSE /\ run_pc' = "saving"
         /\ region_idx' = r

\* clear_worksheet_data, whose exception the caller prints and drops: only the
\* full run of BizQuest, BusinessBroker and IBBA calls it
ClearsSheet == sheet_cfg # "off" /\ ~regions_given /\ run_site # "crexi"

\* a worksheet call was made; it failed unless ok
SheetCall(ok) == [attempted |-> TRUE, failed |-> sheet_log.failed \/ ~ok]

\* the start of the top-level function, up to the region loop
StartRun ==
    /\ run_pc = "start"
    /\ \E clear_ok \in BOOLEAN :
         /\ sheet_cfg # "on" => ~clear_ok
         /\ ~ClearsSheet => ~clear_ok
         /\ worksheet' = IF clear_ok THEN <<>> ELSE worksheet
         /\ sheet_log' = IF ClearsSheet THEN SheetCall(clear_ok) ELSE sheet_log
    /\ run_pc' = "opening"
    /\ region_idx' = 1
    /\ UNCHANGED <<run_site, regions_given, sheet_cfg, run_error, profile_list,
                   region_contacts, all_contacts, seen_urls, csv_file, collected,
                   last_visit, interrupted, args, run_urls, scraped, visited_urls,
                   exportVars, kwVars, locVars, crawlVars, cxVars,
                   ibbaVars>>

\* the region function up to its profile loop: the directory or state page is
\* loaded and its profile links are collected.  BizQuest's crawl catches a
\* failed page load; IBBA's missing "more details" link returns no contacts;
\* page.goto of _scrape_state, of _scrape_state_page and of
\* scrape_crexi_directory is in no try block that catches Exception; Crexi
\* returns without saving when the Cloudflare challenge is not passed
OpenRegion ==
    /\ run_pc = "opening"
    /\ scraped' = scraped \cup {run_urls[region_idx]}
    /\ \E nav \in {"ok", "goto_failed", "no_links", "challenge"},
          n \in 0..MaxProfiles :
         /\ nav = "challenge" => run_site = "crexi"
         /\ nav = "no_links" => run_site = "ibba"
         /\ nav # "ok" => n = 0
         /\ IF nav = "goto_failed" /\ run_site # "bizquest"
            THEN /\ run_pc' = "crashed"
                 /\ run_error' = "navigation"
                 /\ UNCHANGED <<region_idx, profile_list, seen_urls>>
            ELSE IF nav = "challenge"
            THEN /\ run_pc' = "returned"
                 /\ UNCHANGED <<run_error, region_idx, profile_list, seen_urls>>
            ELSE /\ run_pc' = "visiting"
                 /\ profile_list' =
                      SubSeq(RegionProfiles(RegionNumber(run_urls[region_idx])), 1, n)
                 /\ seen_urls' = IF run_site = "ibba" THEN {} ELSE seen_urls
                 /\ UNCHANGED <<run_error, region_idx>>
    /\ UNCHANGED <<run_site, regions_given, sheet_cfg, region_contacts,
                   all_contacts, csv_file, worksheet, collected, last_visit,
                   interrupted, args, run_urls, sheet_log, visited_urls,
                   exportVars, kwVars, locVars, crawlVars, cxVars,
                   ibbaVars>>

\* the scripts whose profile loop loads a profile in "for attempt in range(2)"
RetriesLoad == run_site \in {"businessbroker", "ibba"}

\* one iteration of the profile loop: the profile is skipped when seen, when it
\* does not load (BusinessBroker and IBBA try twice), or when the matcher finds
\* no keyword; else the fields are extracted, the record is appended to
\* contacts and its row to the worksheet.  crexi_scraper.py reads the page text
\* for phone and email outside any field try block, so a failed read leaves
\* _scrape_single_profile by its except.
VisitProfile ==
    /\ run_pc = "visiting"
    /\ profile_list # <<>>
    /\ profile_list' = Tail(profile_list)
    /\ LET k == Head(profile_list)
       IN  IF k \in seen_urls
           THEN /\ last_visit' = NoVisit
                /\ UNCHANGED <<seen_urls, region_contacts, collected, worksheet,
                               sheet_log, visited_urls>>
           ELSE /\ seen_urls' = seen_urls \cup {k}
                /\ visited_urls' = Append(visited_urls, k)
                /\ \E load \in {"first", "second", "failed"},
                      kws \in KeywordResults,
                      failed \in FieldFailures, body_read \in BOOLEAN,
                      append_ok \in BOOLEAN :
                     /\ load = "second" => RetriesLoad
                     /\ load = "failed" => kws = <<>>
                     /\ kws = <<>> => failed = {} /\ body_read
                     /\ run_site # "crexi" => body_read
                     /\ (kws = <<>> \/ ~body_read \/ sheet_cfg = "off")
                            => append_ok
                     /\ sheet_cfg = "misconfigured" /\ kws # <<>> /\ body_read
                            => ~append_ok
                     /\ last_visit' =
                            [url |-> k, loaded |-> load # "failed",
                             attempts |-> IF load = "first" \/ ~RetriesLoad
                                          THEN 1 ELSE 2,
                             keywords |-> kws,
                             failed |-> failed, body_read |-> body_read,
                             records_before |-> Len(collected),
                             rows_before |-> Len(worksheet)]
                     /\ IF kws # <<>> /\ body_read
                        THEN LET contact == RunContact(k, failed, kws)
                             IN  /\ region_contacts' = Append(region_contacts, contact)
                                 /\ collected' = Append(collected, contact)
                                 /\ worksheet' =
                                      IF sheet_cfg = "on" /\ append_ok
                                      THEN Append(worksheet, RowValues(ContactRow(contact)))
                                      ELSE worksheet
                                 /\ sheet_log' = IF sheet_cfg # "off"
                                                 THEN SheetCall(append_ok)
                                                 ELSE sheet_log
                        ELSE UNCHANGED <<region_contacts, collected, worksheet,
                                         sheet_log>>
    /\ UNCHANGED <<run_site, regions_given, sheet_cfg, run_pc, run_error,
                   region_idx, all_contacts, csv_file, interrupted, args, run_urls,
                   scraped, exportVars, kwVars, locVars, crawlVars, cxVars,
                   ibbaVars>>

\* "return contacts" of the region function and all_contacts.extend(...)
CloseRegion ==
    /\ run_pc = "visiting"
    /\ profile_list = <<>>
    /\ all_contacts' = all_contacts \o region_contacts
    /\ region_contacts' = <<>>
    /\ AfterRegion(region_idx)
    /\ last_visit' = NoVisit
    /\ UNCHANGED <<run_site, regions_given, sheet_cfg, run_error, profile_list,
                   seen_urls, csv_file, worksheet, collected,
                   interrupted, args, run_urls, scraped, sheet_log, visited_urls,
                   exportVars, kwVars, locVars, crawlVars, cxVars,
                   ibbaVars>>

\* the operator's interrupt (KeyboardInterrupt) while a region is scraped: the
\* region function is left, its local list with it; scrape_bizquest_directory
\* has no handler, the other three go on to their save step
Interrupt ==
    /\ run_pc \in {"opening", "visiting"}
    /\ interrupted' = TRUE
    /\ region_contacts' = <<>>
    /\ profile_list' = <<>>
    /\ IF run_site = "bizquest"
       THEN /\ run_pc' = "crashed"
            /\ run_error' = "interrupt"
       ELSE /\ run_pc' = "saving"
            /\ run_error' = run_error
    /\ last_visit' = NoVisit
    /\ UNCHANGED <<run_site, regions_given, sheet_cfg, region_idx, all_contacts,
                   seen_urls, csv_file, worksheet, collected,
                   args, run_urls, scraped, sheet_log, visited_urls,
                   exportVars, kwVars, locVars, crawlVars, cxVars,
                   ibbaVars>>

\* upload_dataframe_to_google_sheet is called by the full run of BizQuest and
\* BusinessBroker and by every run of IBBA
UploadsSheet ==
    /\ sheet_cfg # "off"
    /\ run_site # "crexi"
    /\ run_site = "ibba" \/ ~regions_given

\* the save step in the order upload, then CSV: a failed upload leaves the
\* CSV unwritten
SaveRowsAfterUpload(d, upload_ok) ==
    /\ sheet_log' = IF UploadsSheet THEN SheetCall(upload_ok) ELSE sheet_log
    /\ IF UploadsSheet /\ ~upload_ok
       THEN /\ UNCHANGED <<csv_file, worksheet>>
            /\ run_pc' = "crashed"
            /\ run_error' = "sheet"
       ELSE /\ csv_file' = IF run_site = "crexi" /\ all_contacts = <<>>
                           THEN csv_file
                           ELSE save_to_csv(d)
            /\ worksheet' = IF UploadsSheet
                            THEN [i \in 1..Len(d) |-> RowValues(d[i])]
                            ELSE worksheet
            /\ run_pc' = "done"
            /\ run_error' = run_error

\* the save step with the cleaned rows d: save_to_csv (Crexi: only when
\* all_contacts is not empty), then the final upload, whose exception nothing
\* catches
SaveRows(d, upload_ok) ==
    /\ csv_file' = IF run_site = "crexi" /\ all_contacts = <<>>
                   THEN csv_file
                   ELSE save_to_csv(d)
    /\ sheet_log' = IF UploadsSheet THEN SheetCall(upload_ok) ELSE sheet_log
    /\ IF UploadsSheet
       THEN IF upload_ok
            THEN /\ worksheet' = [i \in 1..Len(d) |-> RowValues(d[i])]
                 /\ run_pc' = "done"
                 /\ run_error' = run_error
            ELSE /\ worksheet' = worksheet
                 /\ run_pc' = "crashed"
                 /\ run_error' = "sheet"
       ELSE /\ worksheet' = worksheet
            /\ run_pc' = "done"
            /\ run_error' = run_error

SaveRun ==
    /\ run_pc = "saving"
    /\ \E upload_ok \in BOOLEAN :
         /\ sheet_cfg # "on" => ~upload_ok
         /\ SaveRows(clean_contacts_dataframe(contacts_to_dataframe(all_contacts)),
                     upload_ok)
    /\ UNCHANGED <<run_site, regions_given, sheet_cfg, region_idx, profile_list,
                   region_contacts, all_contacts, seen_urls, collected,
                   last_visit, interrupted, args, run_urls, scraped, visited_urls,
                   exportVars, kwVars, locVars, crawlVars, cxVars,
                   ibbaVars>>

RunNext ==
    \/ Main
    \/ StartRun
    \/ OpenRegion
    \/ VisitProfile
    \/ CloseRegion
    \/ Interrupt
    \/ SaveRun

\* the four site scripts, from their start to the end of the process
SpecRun == RunInit /\ [][RunNext]_vars

(***************************************************************************)
(* Claims about a run (checked under SpecRun)                              *)
(***************************************************************************)
\* C14: no failure of a page navigation or DOM read ends a run: the process
\* ends with an error only when the spreadsheet path fails (an operator's
\* interrupt aside)
C14_OnlySheetErrorsAreFatal ==
    (run_pc = "crashed" /\ ~interrupted) => run_error = "sheet"

\* the CSV file that holds the records collected so far, deduplicated
CsvOf(records) ==
    save_to_csv(clean_contacts_dataframe(contacts_to_dataframe(records)))

RunEnded == run_pc \in {"done", "crashed", "returned"}

\* C15: an interrupt at any point of a run is caught, and every record
\* collected before it, those of the region being scraped included, is in the
\* site's CSV when the script exits
C15_InterruptFlushesAll ==
    (interrupted /\ RunEnded) =>
        /\ run_error # "interrupt"
        /\ collected # <<>> => csv_file = CsvOf(collected)

\* the state right after a profile was visited
Visited == run_pc = "visiting" /\ last_visit.url # 0

Matched == last_visit.keywords # <<>>

NamesKeyword(notes) ==
    \E j \in 1..Len(notes) :
        \E kws \in KeywordResults : \E i \in 1..Len(kws) : notes[j] = kws[i]

\* C16: a visited profile yields one record or none; a record (and a worksheet
\* row) is appended if and only if the matcher reported a match, a profile
\* without a match leaves the list and the worksheet unchanged, and the notes
\* of every record name a matched keyword
C16_RecordIffMatch ==
    /\ Visited =>
        /\ Len(collected) = last_visit.records_before + (IF Matched THEN 1 ELSE 0)
        /\ Len(worksheet) \in {last_visit.rows_before, last_visit.rows_before + 1}
        /\ Len(worksheet) # last_visit.rows_before => Matched
    /\ \A i \in 1..Len(collected) : NamesKeyword(collected[i].notes)

\* whether the extraction of field f failed on the last visited profile
FieldFailed(f) ==
    \/ f \in last_visit.failed
    \/ f \in {"phone_number", "email"} /\ ~last_visit.body_read

\* C17: on a matched profile every combination of failing field extractions,
\* a failed read of the page text for phone and email included, yields exactly
\* one record, with "N/A" in exactly the failed fields
C17_FieldFailureKeepsRecord ==
    (Visited /\ Matched) =>
        /\ Len(collected) = last_visit.records_before + 1
        /\ LET c == collected[Len(collected)]
           IN  /\ c.source_url = ProfileUrl(last_visit.url)
               /\ \A f \in Fields :
                     c[f] = IF FieldFailed(f)
                            THEN NA
                            ELSE PageField(last_visit.url, f)

\* the run went through its save step
Saved == run_pc = "done" \/ run_error = "sheet"

\* C19: a run that reaches its save step overwrites the site's CSV, also with
\* no match: the file holds the header and one row per deduplicated record
C19_CsvOverwritten ==
    Saved => csv_file = CsvOf(all_contacts)

\* the rows the worksheet holds besides those of an earlier run
NewRows == {i \in 1..Len(worksheet) : worksheet[i] # OldRow}

\* C20: in a full run the data rows of the worksheet are cleared before the
\* first row of the run is appended; in a partial run nothing is cleared and
\* the rows are appended after the existing ones
C20_ClearThenAppend ==
    IF regions_given
    THEN run_pc # "idle" => Len(worksheet) >= 1 /\ worksheet[1] = OldRow
    ELSE NewRows # {} => \A i \in 1..Len(worksheet) : worksheet[i] # OldRow

\* the data rows this run wrote to the worksheet, in worksheet order
RunRows == SelectSeq(worksheet, LAMBDA r : r # OldRow)

\* C21: when a run with a configured worksheet finishes with at least one
\* record and none of its worksheet calls failed, the data rows it wrote to
\* the worksheet are the rows of the CSV file, in the same order: no row that
\* deduplication removed is in the worksheet
C21_SheetMirrorsCsv ==
    (run_pc = "done" /\ sheet_cfg = "on" /\ ~sheet_log.failed /\ ~interrupted
        /\ all_contacts # <<>>)
        => RunRows = csv_file.rows

\* C22: with the spreadsheet library missing or the credentials unusable, the
\* first worksheet call of a run changes nothing in the worksheet and ends
\* the run with the error
C22_SheetErrorEndsRun ==
    (sheet_cfg = "misconfigured" /\ sheet_log.attempted)
        => /\ worksheet = <<OldRow>>
           /\ run_pc = "crashed"
           /\ run_error = "sheet"

\* the regions the flags ask for: all configured regions with no flag
FlaggedRegions ==
    IF args = {}
    THEN {DIRECTORY_URLS[i] : i \in 1..Len(DIRECTORY_URLS)}
    ELSE {FlagRegion(flag) : flag \in args}

\* C23: with no region flag a script scrapes all its configured regions, with
\* flags exactly the flagged regions
C23_FlagsChooseRegions ==
    run_pc # "main" =>
        /\ {run_urls[i] : i \in 1..Len(run_urls)} = FlaggedRegions
        /\ scraped \subseteq FlaggedRegions
        /\ (run_pc = "done" /\ ~interrupted) => scraped = FlaggedRegions

\* the visits of profile k before the last visit of the run
EarlierVisits(k) ==
    Cardinality({i \in 1..(Len(visited_urls) - 1) : visited_urls[i] = k})

\* C24: a profile URL is navigated to at most twice in a run (every earlier
\* visit navigated to it at least once); a load that succeeds on the second
\* attempt yields a record exactly when the keywords match; a profile whose
\* retry fails adds no record and no worksheet row, and the loop goes on
C24_RetryAtMostOnce ==
    Visited =>
        /\ EarlierVisits(last_visit.url) + last_visit.attempts <= 2
        /\ (last_visit.loaded /\ last_visit.attempts = 2) =>
              Len(collected) = last_visit.records_before
                                  + (IF last_visit.keywords # <<>> THEN 1 ELSE 0)
        /\ ~last_visit.loaded =>
              /\ Len(collected) = last_visit.records_before
              /\ Len(worksheet) = last_visit.rows_before
              /\ run_pc = "visiting"

\* C27: in one run no profile URL is visited twice and no two collected
\* records have the same source_url
C27_NoProfileTwice ==
    /\ \A i, j \in 1..Len(visited_urls) :
          visited_urls[i] = visited_urls[j] => i = j
    /\ \A i, j \in 1..Len(collected) :
          collected[i].source_url = collected[j].source_url => i = j

\* the position of u in the list seq (0: not in it)
IndexIn(seq, u) ==
    IF \E k \in 1..Len(seq) : seq[k] = u
    THEN CHOOSE k \in 1..Len(seq) : seq[k] = u /\ \A j \in 1..(k - 1) : seq[j] # u
    ELSE 0

\* the URLs the last iteration added to all_urls
AddedUrls ==
    SubSeq(cx_all_urls, Len(cx_last.urls_before) + 1, Len(cx_all_urls))

\* C25: URLs are added only while page_num is within start_page..end_page;
\* page_num never exceeds end_page, never decreases and grows by one exactly
\* in an iteration whose Next click succeeded; no iteration loads or reloads
\* the directory page; all_urls only grows at its end, by URLs the iteration
\* read that were not in it, in the order read, and never holds a URL twice
C25_CollectWindow ==
    /\ cx_collected_at \subseteq start_page..end_page
    /\ cx_page_num <= end_page
    /\ cx_last.page # 0 =>
          /\ cx_page_num \in {cx_last.page, cx_last.page + 1}
          /\ cx_page_num = cx_last.page + 1 <=>
                (cx_pc = "crawling" /\ fail_streak = 0
                   /\ cx_last.ops[Len(cx_last.ops)] = "click_next")
          /\ \A k \in 1..Len(cx_last.ops) : cx_last.ops[k] \notin {"goto", "reload"}
          /\ cx_last.page < start_page =>
                (cx_last.links = <<>> /\ AddedUrls = <<>>
                   /\ \A k \in 1..Len(cx_last.ops) : cx_last.ops[k] # "links")
          /\ SubSeq(cx_all_urls, 1, Len(cx_last.urls_before)) = cx_last.urls_before
          /\ \A k \in 1..Len(AddedUrls) :
                /\ IndexIn(cx_last.links, AddedUrls[k]) > 0
                /\ IndexIn(cx_last.urls_before, AddedUrls[k]) = 0
          /\ \A j, k \in 1..Len(AddedUrls) :
                j < k => IndexIn(cx_last.links, AddedUrls[j])
                            < IndexIn(cx_last.links, AddedUrls[k])
          /\ \A k \in 1..Len(cx_last.links) :
                IndexIn(cx_all_urls, cx_last.links[k]) > 0
    /\ \A j, k \in 1..Len(cx_all_urls) : cx_all_urls[j] = cx_all_urls[k] => j = k

\* the collector was started at page 2, went through page 1 without adding a
\* URL, and returned at page 3 with the URLs of pages 2 and 3, the repeat of
\* page 3 left out
C25_Witness ==
    /\ cx_pc = "returned"
    /\ start_page = 2
    /\ cx_page_num = 3
    /\ cx_collected_at = {2, 3}
    /\ cx_last.links = <<CrexiLink(3), CrexiLink(2)>>
    /\ cx_all_urls = <<CrexiLink(2), CrexiLink(1), CrexiLink(3)>>

\* the collector with its loop always taking its next iteration: the function
\* runs in the only thread of the script and every call it makes has a timeout
SpecCrexiCrawlFair == SpecCrexiCrawl /\ WF_vars(CxNext)

\* C26: _collect_all_profile_urls returns, whatever the site does
C26_CollectorReturns == <>(cx_pc = "returned")

\* C29: a run that ends with the final upload has written the CSV file with
\* all its deduplicated records when the upload is made: the file is complete
\* also when the upload, or an append before it, failed
C29_CsvBeforeUpload ==
    (Saved /\ UploadsSheet) =>
        /\ csv_file = CsvOf(all_contacts)
        /\ ~interrupted => all_contacts = collected
        /\ run_pc = "done" => worksheet = csv_file.rows

\* the final upload failed after an append had succeeded, and the CSV file
\* holds the two records left of the three collected
C29_Witness ==
    /\ run_error = "sheet"
    /\ sheet_cfg = "on"
    /\ ~interrupted
    /\ Len(collected) = 3
    /\ Len(csv_file.rows) = 2
    /\ Len(worksheet) >= 1
    /\ worksheet[1] # OldRow

(***************************************************************************)
(* The card loop of _scrape_state_page of ibba_scraper.py                  *)
(***************************************************************************)
\* the largest number of "more details" links of a state page in the model
MaxCards == 3

\* no card has been read yet
NoCard == [card |-> 0, shown |-> "state", visit |-> "none", reload |-> "none"]

\* the state page has loaded and shows a "more details" link; the generator
\* _get_listing_cards_and_links counts the links once, before the first card
IbStart ==
    /\ ib_n \in 1..MaxCards
    /\ ib_card = 1
    /\ ib_shows = "state"
    /\ ib_contacts = 0
    /\ ib_last = NoCard
    /\ ib_pc = "loop"

IbInit ==
    /\ ExportStart /\ KwIdle /\ LocIdle /\ CrawlIdle /\ CxIdle /\ RunIdle
    /\ IbStart /\ PhIdle

\* what the browser shows after the reloads of the state page: "ok" is the
\* reload at the end of the try block, "recovered" one of the two attempts of
\* the except block, "lost" the failure of all of them, after which the
\* browser keeps the profile page (also one whose load timed out) or shows
\* an error page
AfterReload(reload, lost_at) == IF reload = "lost" THEN lost_at ELSE "state"

\* one iteration of "for card, link in _get_listing_cards_and_links(page)":
\* the locator of the link is resolved against the page the browser shows
\* when it is read
IbIteration ==
    /\ ib_pc = "loop"
    /\ ib_card <= ib_n
    /\ ib_card' = ib_card + 1
    /\ ib_pc' = ib_pc
    /\ \E href_found \in BOOLEAN, seen \in BOOLEAN,
          load \in {"first", "second", "failed"}, passes \in BOOLEAN,
          reload \in {"ok", "recovered", "lost"},
          lost_at \in {"profile", "error"} :
         IF ~href_found \/ seen
         THEN \* "if not href: continue" and "if profile_url in seen_urls: continue"
              /\ ib_last' = [card |-> ib_card, shown |-> ib_shows,
                             visit |-> "none", reload |-> "none"]
              /\ UNCHANGED <<ib_shows, ib_contacts>>
         ELSE /\ load = "failed" => (~passes /\ reload # "ok")
              /\ ib_last' = [card |-> ib_card, shown |-> ib_shows,
                             visit |-> IF load = "failed"
                                       THEN "failed"
                                       ELSE IF passes THEN "matched"
                                                      ELSE "unmatched",
                             reload |-> reload]
              /\ ib_contacts' = IF passes THEN ib_contacts + 1 ELSE ib_contacts
              /\ ib_shows' = AfterReload(reload, lost_at)
    /\ UNCHANGED <<ib_n, tel_links, phone_result, ph_pc, exportVars, kwVars,
                   locVars, crawlVars, cxVars, runVars>>

\* the generator is exhausted: "return contacts"
IbReturn ==
    /\ ib_pc = "loop"
    /\ ib_card > ib_n
    /\ ib_pc' = "returned"
    /\ UNCHANGED <<ib_n, ib_card, ib_shows, ib_contacts, ib_last, tel_links,
                   phone_result, ph_pc, exportVars, kwVars, locVars, crawlVars,
                   cxVars, runVars>>

IbNext == IbIteration \/ IbReturn

\* _scrape_state_page from its card loop on
SpecIbbaState == IbInit /\ [][IbNext]_vars

\* C28: the link of a card is read while the browser shows the state page,
\* and after every profile visit (matched, unmatched or failed) the browser
\* shows the state page again
C28_CardsReadOnStatePage ==
    /\ ib_last.card # 0 => ib_last.shown = "state"
    /\ ib_last.visit # "none" => ib_shows = "state"

(***************************************************************************)
(* The phone of an IBBA profile: _extract_phone_from_profile               *)
(***************************************************************************)
IBBA_HEADER_DIGITS == <<"8", "8", "8", "6", "8", "6", "4", "2", "2", "2">>

\* re.sub(r"\D", "", s) if s else ""
_normalize_phone_digits(s) == DigitsOnly(s)

\* _is_ibba_header without the test of the length: every number is compared
IsHeaderAnyLength(digits) ==
    (IF Len(digits) = 11 /\ Head(digits) = "1" THEN Tail(digits) ELSE digits)
        = IBBA_HEADER_DIGITS

_is_ibba_header(digits) ==
    IF Len(digits) < 10
    THEN FALSE
    ELSE (IF Len(digits) = 11 /\ Head(digits) = "1" THEN Tail(digits) ELSE digits)
            = IBBA_HEADER_DIGITS

TelPrefix == <<"t", "e", "l", ":">>

RECURSIVE RemoveTel(_)
\* href.replace("tel:", "")
RemoveTel(href) ==
    IF Len(href) < Len(TelPrefix)
    THEN href
    ELSE IF SubSeq(href, 1, Len(TelPrefix)) = TelPrefix
         THEN RemoveTel(SubSeq(href, Len(TelPrefix) + 1, Len(href)))
         ELSE <<Head(href)>> \o RemoveTel(Tail(href))

RECURSIVE BeforeQuestion(_)
\* s.split("?")[0]
BeforeQuestion(s) ==
    IF s = <<>> \/ Head(s) = "?"
    THEN <<>>
    ELSE <<Head(s)>> \o BeforeQuestion(Tail(s))

\* num_raw = href.replace("tel:", "").strip().split("?")[0].strip()
NumRaw(href) == Strip(BeforeQuestion(Strip(RemoveTel(href))))

\* re.search(r"\d", text)
HasDigit(text) == \E i \in 1..Len(text) : IsDigit(text[i])

\* re.search(r"\d{3}", text)
HasThreeDigits(text) ==
    \E i \in 1..(Len(text) - 2) :
        IsDigit(text[i]) /\ IsDigit(text[i + 1]) /\ IsDigit(text[i + 2])

\* a loop that ends without "return"
NoReturn == <<"no return">>

RECURSIVE HrefLoop(_)
\* the first "for i in range(n)": the number of the href decides, the text of
\* the link is returned when it has a digit
HrefLoop(links) ==
    IF links = <<>>
    THEN NoReturn
    ELSE LET href == Head(links).href
             num_raw == NumRaw(href)
             digits == _normalize_phone_digits(num_raw)
             text == Strip(Head(links).text)
         IN  IF href = <<>> \/ Len(href) < 4 \/ SubSeq(href, 1, 4) # TelPrefix
             THEN HrefLoop(Tail(links))
             ELSE IF _is_ibba_header(digits)
             THEN HrefLoop(Tail(links))
             ELSE IF Len(digits) >= 10
             THEN IF text # <<>> /\ HasDigit(text) THEN text ELSE num_raw
             ELSE HrefLoop(Tail(links))

RECURSIVE TextLoop(_)
\* the second "for i in range(n)": the text of the link decides
TextLoop(links) ==
    IF links = <<>>
    THEN NoReturn
    ELSE LET text == Strip(Head(links).text)
             digits == _normalize_phone_digits(text)
         IN  IF text = <<>> \/ ~HasThreeDigits(text)
             THEN TextLoop(Tail(links))
             ELSE IF _is_ibba_header(digits)
             THEN TextLoop(Tail(links))
             ELSE IF Len(digits) >= 10
             THEN text
             ELSE TextLoop(Tail(links))

_extract_phone_from_profile(links) ==
    LET first == HrefLoop(links)
    IN  IF first # NoReturn
        THEN first
        ELSE LET second == TextLoop(links)
             IN  IF second # NoReturn THEN second ELSE NA

\* the most tel: links of a profile page in the model
MaxTelLinks == 2

\* href attributes matched by a[href^='tel:']: the IBBA header number, plain
\* and with country code, a broker's number with a query, a short number
TelHrefs ==
    { <<"t", "e", "l", ":", "8", "8", "8", "-", "6", "8", "6", "-", "4", "2", "2", "2">>,
      <<"t", "e", "l", ":", "+", "1", " ", "(", "8", "8", "8", ")", " ", "6", "8", "6", "-", "4", "2", "2", "2">>,
      <<"t", "e", "l", ":", "2", "1", "2", "5", "5", "5", "0", "1", "0", "0", "?", "x", "=", "1">>,
      <<"t", "e", "l", ":", "9", "1", "1">> }

\* visible texts of such links
TelTexts ==
    { <<"(", "8", "8", "8", ")", " ", "6", "8", "6", "-", "4", "2", "2", "2">>,
      <<"2", "1", "2", "-", "5", "5", "5", "-", "0", "1", "0", "0">>,
      <<"C", "a", "l", "l", " ", "u", "s">>,
      <<" ", "1", "-", "8", "8", "8", "-", "6", "8", "6", "-", "4", "2", "2", "2", " ">>,
      <<>> }

TelLinks == [href : TelHrefs, text : TelTexts]

PhStart ==
    /\ tel_links \in UNION {[1..n -> TelLinks] : n \in 0..MaxTelLinks}
    /\ phone_result = <<>>
    /\ ph_pc = "ready"

PhInit ==
    /\ ExportStart /\ KwIdle /\ LocIdle /\ CrawlIdle /\ CxIdle /\ RunIdle
    /\ IbIdle /\ PhStart

\* one call of _extract_phone_from_profile; a locator call that raises is
\* caught by the function's except, which leads to return "N/A"
PhExtract ==
    /\ ph_pc = "ready"
    /\ \E raises \in BOOLEAN :
         /\ ph_pc' = IF raises THEN "raised" ELSE "done"
         /\ phone_result' = IF raises
                            THEN NA
                            ELSE _extract_phone_from_profile(tel_links)
    /\ UNCHANGED <<tel_links, ib_n, ib_card, ib_shows, ib_contacts, ib_last,
                   ib_pc, exportVars, kwVars, locVars, crawlVars, cxVars,
                   runVars>>

PhNext == PhExtract

SpecIbbaPhone == PhInit /\ [][PhNext]_vars

\* the link carries a number of at least ten digits, in its href or in its
\* text, that is not the IBBA header number
UsableLink(link) ==
    \/ LET digits == DigitsOnly(NumRaw(link.href))
       IN  Len(digits) >= 10 /\ ~IsHeaderAnyLength(digits)
    \/ LET digits == DigitsOnly(link.text)
       IN  Len(digits) >= 10 /\ ~IsHeaderAnyLength(digits)

\* C30: for every list of tel: links whose reads succeed, the phone returned
\* is not the IBBA header number, with or without a leading 1, and it is not
\* "N/A" when a link carries another number of at least ten digits
C30_NeverHeaderPhone ==
    ph_pc = "done" =>
        /\ ~IsHeaderAnyLength(DigitsOnly(phone_result))
        /\ (\E i \in 1..Len(tel_links) : UsableLink(tel_links[i]))
              => phone_result # NA

====
